---- MODULE Spec2Model ----
(***************************************************************************)
(* Split-operator propagation (Wleter/split_operator).                     *)
(*                                                                         *)
(* The model covers the WaveFunction container with its ChangeObserver     *)
(* cache, the LossChecker, the diagonal propagator, the matrix            *)
(* transformation (Diagonalization), the controls LeakControl and          *)
(* BorderDumping, and Propagation with its operation stack.                *)
(*                                                                         *)
(* Numbers.  An f64 is an exact rational <<n, d>> (d > 0, lowest terms);   *)
(* <<0, 0>> is NaN.  The array of a rank-1 wave function on DimSize nodes  *)
(* is [v, s]: the tuple of integers v times sqrt(s), so that the scaling   *)
(* by sqrt(new_norm / norm) of normalize is exact.                         *)
(***************************************************************************)
EXTENDS Integers, Sequences, FiniteSets, TLC

VARIABLES
    wave_function,  \* WaveFunction: array, grids, change_observer, weight cache
    operations,     \* Propagation.operations, or the objects a caller holds
    time_grid,      \* TimeGrid: step_no
    pc,             \* where the caller / propagate() is
    pos,            \* position of step() in its two sweeps (0 outside a step)
    steps_done,     \* iterations of the loop of propagate() completed
    calls,          \* methods invoked on operations during the current step
    visits,         \* stack indices visited during the current step
    visit_no,       \* operation visits since propagate() was entered / calls a caller made
    before,         \* what the wave function was when propagate() / the last call began
    last_call       \* last method called directly on the wave function or an object

vars == <<wave_function, operations, time_grid, pc, pos, steps_done, calls,
          visits, visit_no, before, last_call>>

----------------------------------------------------------------------------
(* Bounds of the model *)

MaxStack == 3
MaxStepNo == 2
MaxCalls == 4

\* Number of nodes of the single axis of the wave function
DimSize == 2

----------------------------------------------------------------------------
(* f64 arithmetic *)

Abs(x) == IF x < 0 THEN -x ELSE x

RECURSIVE GCD(_, _)
GCD(a, b) == IF b = 0 THEN a ELSE GCD(b, a % b)

NaN == <<0, 0>>

IsNaN(x) == x[2] = 0

Rat(n, d) ==
    IF d = 0 THEN NaN
    ELSE LET g == GCD(Abs(n), Abs(d))
             sgn == IF d < 0 THEN -1 ELSE 1
         IN <<(sgn * n) \div g, (sgn * d) \div g>>

Real(n) == <<n, 1>>

RAdd(x, y) ==
    IF IsNaN(x) \/ IsNaN(y) THEN NaN
    ELSE Rat(x[1] * y[2] + y[1] * x[2], x[2] * y[2])

RSub(x, y) ==
    IF IsNaN(x) \/ IsNaN(y) THEN NaN
    ELSE Rat(x[1] * y[2] - y[1] * x[2], x[2] * y[2])

RMul(x, y) ==
    IF IsNaN(x) \/ IsNaN(y) THEN NaN
    ELSE Rat(x[1] * y[1], x[2] * y[2])

\* x / y where the quotient is then multiplied into array entries that are zero
\* when y is zero: t / 0 is inf or NaN, and 0 * inf is NaN.
RDiv(x, y) ==
    IF IsNaN(x) \/ IsNaN(y) THEN NaN
    ELSE Rat(x[1] * y[2], x[2] * y[1])

----------------------------------------------------------------------------
(* Arrays *)

Idx == 1..DimSize

Zeros == [i \in Idx |-> 0]

NaNArray == [v |-> Zeros, s |-> NaN]

RECURSIVE GCDSeq(_, _)
GCDSeq(v, k) == IF k = 0 THEN 0 ELSE GCD(Abs(v[k]), GCDSeq(v, k - 1))

\* One representation per array value.
Canon(v, s) ==
    IF IsNaN(s) THEN NaNArray
    ELSE IF s[1] = 0 \/ v = Zeros THEN [v |-> Zeros, s |-> Real(0)]
    ELSE LET g == GCDSeq(v, DimSize)
         IN [v |-> [i \in Idx |-> v[i] \div g], s |-> RMul(s, Real(g * g))]

RECURSIVE SumTo(_, _)
SumTo(f, k) == IF k = 0 THEN 0 ELSE f[k] + SumTo(f, k - 1)

\* lane *= operator
MulLane(array, operator) ==
    Canon([i \in Idx |-> array.v[i] * operator[i]], array.s)

\* matrix.dot(lane)
Dot(matrix, array) ==
    Canon([i \in Idx |-> SumTo([j \in Idx |-> matrix[i][j] * array.v[j]], DimSize)],
          array.s)

\* array *= sqrt(factor)
ScaleSqrt(array, factor) ==
    IF factor[1] < 0 THEN NaNArray ELSE Canon(array.v, RMul(array.s, factor))

\* sum of |array|^2 * |weight|^2
WeightedSum(array, weights) ==
    IF IsNaN(array.s) THEN NaN
    ELSE RMul(array.s,
              Real(SumTo([i \in Idx |-> array.v[i] * array.v[i] * weights[i]], DimSize)))

----------------------------------------------------------------------------
(* Grid *)

Grid(name, weights) ==
    [name |-> name, dimension_no |-> 0, nodes_no |-> DimSize, weights |-> weights]

\* The axis the wave function is built on, and the replacement grids a
\* transformation can be constructed with (Grid::new_custom takes any name).
SpaceGrid == Grid("space", [i \in Idx |-> 1])

MomentumGrid == Grid("momentum", [i \in Idx |-> IF i = 1 THEN 2 ELSE 1])

SameNameGrid == Grid("space", [i \in Idx |-> IF i = 1 THEN 2 ELSE 1])

ReplacementGrids == {MomentumGrid, SameNameGrid}

----------------------------------------------------------------------------
(* ChangeObserver and WaveFunction *)

GridNames(grids) == [k \in 1..Len(grids) |-> grids[k].name]

\* weight_amplitude_array holds sqrt(weight); an entry is kept as its square,
\* which is what norm_sqr() reads back.
WeightAmplitudeArray(grids) == [i \in Idx |-> grids[1].weights[i]]

NewWaveFunction(array, grids) ==
    [array |-> array,
     grids |-> grids,
     weight_amplitude_array |-> WeightAmplitudeArray(grids),
     last_grid_names |-> GridNames(grids),
     last_norm |-> Real(1),
     possible_norm_change |-> TRUE]

has_grid_changed(wf) ==
    \E k \in 1..Len(wf.grids) : wf.last_grid_names[k] # wf.grids[k].name

\* update_weight_amplitude_array followed by observe_grid, when the grid changed
RefreshWeights(wf) ==
    IF has_grid_changed(wf)
    THEN [wf EXCEPT !.weight_amplitude_array = WeightAmplitudeArray(wf.grids),
                    !.last_grid_names = GridNames(wf.grids)]
    ELSE wf

observe_norm(wf, new_norm) ==
    [wf EXCEPT !.last_norm = new_norm, !.possible_norm_change = FALSE]

\* norm(): the wave function it leaves and the value it returns
norm(wf) ==
    IF wf.possible_norm_change = FALSE
    THEN [wf |-> wf, value |-> wf.last_norm]
    ELSE LET w == RefreshWeights(wf)
             n == WeightedSum(w.array, w.weight_amplitude_array)
         IN [wf |-> observe_norm(w, n), value |-> n]

\* A normalize that multiplies the array by new_norm / norm
normalizeNoSqrt(wf, new_norm) ==
    LET r == norm(wf)
        f == RDiv(new_norm, r.value)
    IN observe_norm([r.wf EXCEPT !.array = ScaleSqrt(r.wf.array, RMul(f, f))],
                    new_norm)

normalize(wf, new_norm) ==
    LET r == norm(wf)
    IN observe_norm([r.wf EXCEPT !.array = ScaleSqrt(r.wf.array, RDiv(new_norm, r.value))],
                    new_norm)

\* state_density(axis) of a rank-1 wave function
state_density(wf) ==
    LET w == RefreshWeights(wf)
    IN [wf |-> w,
        value |-> IF IsNaN(w.array.s) THEN [i \in Idx |-> NaN]
                  ELSE [i \in Idx |-> RMul(w.array.s, Real(w.array.v[i] * w.array.v[i]))]]

----------------------------------------------------------------------------
(* LossChecker (Option<LossChecker>: some = FALSE is None) *)

\* Option<LossSaver>: None
NoLossSaver ==
    [some |-> FALSE, frames_no |-> 0, total_frames |-> 0, current_frame |-> 0,
     losses |-> <<>>, times |-> <<>>, panicked |-> FALSE]

\* LossSaver::new
LossSaverNew(frames_no, step_no) ==
    [some |-> TRUE, frames_no |-> frames_no, total_frames |-> step_no,
     current_frame |-> 0, losses |-> <<>>, times |-> <<>>, panicked |-> FALSE]

\* LossSaver::monitor.  A time is kept in units of step / 2; panicked is
\* set when the remainder by a zero frequency aborts the program.
LossSaverMonitor(ls, loss) ==
    LET frequency == (2 * ls.total_frames) \div ls.frames_no
    IN IF frequency = 0 THEN [ls EXCEPT !.panicked = TRUE]
       ELSE IF ls.current_frame % frequency = 0
               /\ ls.current_frame \div frequency < ls.frames_no
       THEN [ls EXCEPT !.losses = Append(ls.losses, loss),
                       !.times = Append(ls.times, ls.current_frame + 1),
                       !.current_frame = ls.current_frame + 1]
       ELSE [ls EXCEPT !.current_frame = ls.current_frame + 1]

NoLossChecker ==
    [some |-> FALSE, loss |-> Real(0), current_norm |-> Real(1),
     loss_saver |-> NoLossSaver]

NewLossChecker ==
    [some |-> TRUE, loss |-> Real(0), current_norm |-> Real(1),
     loss_saver |-> NoLossSaver]

\* LossChecker::new_with_saver
NewLossCheckerWithSaver(frames_no, step_no) ==
    [NewLossChecker EXCEPT !.loss_saver = LossSaverNew(frames_no, step_no)]

check_before(lc, wf) ==
    LET r == norm(wf)
    IN [lc |-> [lc EXCEPT !.current_norm = r.value], wf |-> r.wf]

\* A check_after that takes the norm from the cache
check_after_cached(lc, wf) ==
    [lc |-> [lc EXCEPT !.loss = RAdd(lc.loss, RSub(lc.current_norm, wf.last_norm)),
                       !.current_norm = wf.last_norm],
     wf |-> wf]

check_after(lc, wf) ==
    LET r == norm(wf)
        loss == RAdd(lc.loss, RSub(lc.current_norm, r.value))
    IN [lc |-> [lc EXCEPT !.loss = loss,
                          !.loss_saver = IF lc.loss_saver.some
                                         THEN LossSaverMonitor(lc.loss_saver, loss)
                                         ELSE lc.loss_saver,
                          !.current_norm = r.value],
        wf |-> r.wf]

LossReset(lc) == [lc EXCEPT !.loss = Real(0)]

----------------------------------------------------------------------------
(* The operations: one record shape for the four variants of Operations.   *)
(*   kind          Propagator | Diagonalization | Saver | Control          *)
(*   flag          diagonalization_first, or first_half of a saver         *)
(*   config        the Apply mask of a control (None 0, FirstHalf 1,       *)
(*                 SecondHalf 2, both 3)                                   *)
(*   name          Control::name()                                         *)
(*   operator      the operator of a propagator / of BorderDumping         *)
(*   grid_transformation   the grid a transformation holds                 *)
(*   norm          LeakControl.norm                                        *)
(*   loss_checked  the Option<LossChecker> of a propagator or control      *)
(*   current_frame monitor calls a saver has received                      *)

ApplyNone == 0
FirstHalf == 1
SecondHalf == 2

\* A test of the mask that ignores which flag is asked for
AndAnyFlag(a, b) == a

\* a & b of the Apply flags
And(a, b) == ((a % 2) * (b % 2)) + 2 * (((a \div 2) % 2) * ((b \div 2) % 2))

Ones == [i \in Idx |-> 1]

Blank ==
    [kind |-> "Propagator", flag |-> FALSE, config |-> ApplyNone, name |-> "",
     operator |-> Zeros, grid_transformation |-> SpaceGrid, norm |-> Real(0),
     loss_checked |-> NoLossChecker, current_frame |-> 0]

\* OneDimPropagator::new, set_operator, set_loss_checked
NewPropagator(operator, lc) ==
    [Blank EXCEPT !.kind = "Propagator", !.operator = operator, !.loss_checked = lc]

\* MatrixDiagonalization::new with its replacement grid; the flag is the
\* diagonalization_first of add_diagonalization
NewDiagonalization(grid, first) ==
    [Blank EXCEPT !.kind = "Diagonalization", !.grid_transformation = grid,
                  !.flag = first]

NewSaver(first_half) == [Blank EXCEPT !.kind = "Saver", !.flag = first_half]

\* LeakControl::new, add_loss_checker
NewLeakControl(config, lc) ==
    [Blank EXCEPT !.kind = "Control", !.name = "LeakControl", !.config = config,
                  !.norm = Real(0), !.loss_checked = lc]

\* BorderDumping::new(mask, ..), add_loss_checker
NewBorderDumping(config, mask, lc) ==
    [Blank EXCEPT !.kind = "Control", !.name = "BorderDumping", !.config = config,
                  !.operator = mask, !.loss_checked = lc]

\* The matrices given to set_diagonalization_matrix: T is the cyclic shift
\* that negates the entry it wraps around, (T v)[1] = -v[DimSize] and
\* (T v)[i] = v[i - 1]; Tinv is its inverse, so T # Tinv for every size.
Transformation ==
    [i \in Idx |-> [j \in Idx |-> IF i = 1 THEN (IF j = DimSize THEN -1 ELSE 0)
                                  ELSE (IF j = i - 1 THEN 1 ELSE 0)]]

InverseTransformation ==
    [i \in Idx |-> [j \in Idx |-> IF i = DimSize THEN (IF j = 1 THEN -1 ELSE 0)
                                  ELSE (IF j = i + 1 THEN 1 ELSE 0)]]

\* The operators propagators are given: a mask that absorbs the last node
\* (the shape dumping_end builds) and a unitary diagonal.
Mask == [i \in Idx |-> IF i = DimSize THEN 0 ELSE 1]

Phase == [i \in Idx |-> IF i = 1 THEN 1 ELSE -1]

\* A method call returns the object and the wave function it leaves.
Res(op, wf) == [op |-> op, wf |-> wf]

apply_unchecked(op, wf) ==
    [wf EXCEPT !.possible_norm_change = TRUE,
               !.array = MulLane(wf.array, op.operator)]

\* Propagator::apply
apply(op, wf) ==
    IF op.loss_checked.some
    THEN LET b == check_before(op.loss_checked, wf)
             a == check_after(b.lc, apply_unchecked(op, b.wf))
         IN Res([op EXCEPT !.loss_checked = a.lc], a.wf)
    ELSE Res(op, apply_unchecked(op, wf))

\* Propagator::loss_reset
loss_reset(op) ==
    IF op.loss_checked.some
    THEN [op EXCEPT !.loss_checked = LossReset(op.loss_checked)]
    ELSE op

\* wave_function.grids[dimension_no].swap(&mut self.grid_transformation)
SwapGrid(op, wf, matrix) ==
    Res([op EXCEPT !.grid_transformation = wf.grids[op.grid_transformation.dimension_no + 1]],
        [wf EXCEPT !.grids[op.grid_transformation.dimension_no + 1] = op.grid_transformation,
                   !.possible_norm_change = TRUE,
                   !.array = Dot(matrix, wf.array)])

diagonalize(op, wf) == SwapGrid(op, wf, Transformation)

inverse_diagonalize(op, wf) == SwapGrid(op, wf, InverseTransformation)

\* Saver::monitor: a saver that records this frame reads state_density
monitor(op, wf, records) ==
    Res([op EXCEPT !.current_frame = op.current_frame + 1],
        IF records THEN state_density(wf).wf ELSE wf)

LeakFirstHalf(op, wf) ==
    LET r == norm(wf)
    IN IF op.loss_checked.some
       THEN LET b == check_before(op.loss_checked, r.wf)
            IN Res([op EXCEPT !.norm = r.value, !.loss_checked = b.lc], b.wf)
       ELSE Res([op EXCEPT !.norm = r.value], r.wf)

\* A second half that checks the loss and does not renormalize
LeakSecondHalfNoNormalize(op, wf) ==
    IF op.loss_checked.some
    THEN LET a == check_after(op.loss_checked, wf)
         IN Res([op EXCEPT !.loss_checked = a.lc], a.wf)
    ELSE Res(op, wf)

LeakSecondHalf(op, wf) ==
    IF op.loss_checked.some
    THEN LET a == check_after(op.loss_checked, wf)
         IN Res([op EXCEPT !.loss_checked = a.lc], normalize(a.wf, op.norm))
    ELSE Res(op, normalize(wf, op.norm))

\* BorderDumping::first_half and second_half have the same body
BorderHalf(op, wf) ==
    IF op.loss_checked.some
    THEN LET b == check_before(op.loss_checked, wf)
             a == check_after(b.lc, apply_unchecked(op, b.wf))
         IN Res([op EXCEPT !.loss_checked = a.lc], a.wf)
    ELSE Res(op, apply_unchecked(op, wf))

first_half(op, wf) ==
    IF op.name = "LeakControl" THEN LeakFirstHalf(op, wf) ELSE BorderHalf(op, wf)

second_half(op, wf) ==
    IF op.name = "LeakControl" THEN LeakSecondHalf(op, wf) ELSE BorderHalf(op, wf)

----------------------------------------------------------------------------
(* Propagation *)

\* The wave functions a Propagation is constructed with
InitArrays == {Canon([i \in Idx |-> i], Real(1))}

\* for op in &mut self.operations
ForwardOrder(n) == [k \in 1..n |-> k]

ReverseOrderNoSkip(n) == [k \in 1..n |-> n + 1 - k]

\* self.operations.iter().rev().skip(1)
ReverseOrder(n) == [k \in 1..(IF n = 0 THEN 0 ELSE n - 1) |-> n - k]

\* A step that makes the forward sweep only
ForwardSweepOnly(n) == ForwardOrder(n)

\* The stack indices step() visits, in order
StepOrder(n) == ForwardOrder(n) \o ReverseOrder(n)

\* A first loop that takes the order flag the other way round
ForwardCallInverseFirst(op, wf, records) ==
    CASE op.kind = "Propagator" -> [r |-> apply(op, wf), call |-> "apply"]
      [] op.kind = "Diagonalization" ->
            IF op.flag
            THEN [r |-> inverse_diagonalize(op, wf), call |-> "inverse_diagonalize"]
            ELSE [r |-> diagonalize(op, wf), call |-> "diagonalize"]
      [] op.kind = "Saver" ->
            IF op.flag
            THEN [r |-> monitor(op, wf, records), call |-> "monitor"]
            ELSE [r |-> Res(op, wf), call |-> "none"]
      [] op.kind = "Control" ->
            IF And(op.config, FirstHalf) # ApplyNone
            THEN [r |-> first_half(op, wf), call |-> "first_half"]
            ELSE [r |-> Res(op, wf), call |-> "none"]

\* A first loop that monitors every saver
ForwardCallEverySaver(op, wf, records) ==
    CASE op.kind = "Propagator" -> [r |-> apply(op, wf), call |-> "apply"]
      [] op.kind = "Diagonalization" ->
            IF op.flag
            THEN [r |-> diagonalize(op, wf), call |-> "diagonalize"]
            ELSE [r |-> inverse_diagonalize(op, wf), call |-> "inverse_diagonalize"]
      [] op.kind = "Saver" -> [r |-> monitor(op, wf, records), call |-> "monitor"]
      [] op.kind = "Control" ->
            IF And(op.config, FirstHalf) # ApplyNone
            THEN [r |-> first_half(op, wf), call |-> "first_half"]
            ELSE [r |-> Res(op, wf), call |-> "none"]

\* The match arm of the first loop of step()
ForwardCall(op, wf, records) ==
    CASE op.kind = "Propagator" -> [r |-> apply(op, wf), call |-> "apply"]
      [] op.kind = "Diagonalization" ->
            IF op.flag
            THEN [r |-> diagonalize(op, wf), call |-> "diagonalize"]
            ELSE [r |-> inverse_diagonalize(op, wf), call |-> "inverse_diagonalize"]
      [] op.kind = "Saver" ->
            IF op.flag
            THEN [r |-> monitor(op, wf, records), call |-> "monitor"]
            ELSE [r |-> Res(op, wf), call |-> "none"]
      [] op.kind = "Control" ->
            IF And(op.config, FirstHalf) # ApplyNone
            THEN [r |-> first_half(op, wf), call |-> "first_half"]
            ELSE [r |-> Res(op, wf), call |-> "none"]

\* A second loop that repeats the direction of the first
ReverseCallSameDirection(op, wf, records) ==
    CASE op.kind = "Propagator" -> [r |-> apply(op, wf), call |-> "apply"]
      [] op.kind = "Diagonalization" ->
            IF op.flag
            THEN [r |-> diagonalize(op, wf), call |-> "diagonalize"]
            ELSE [r |-> inverse_diagonalize(op, wf), call |-> "inverse_diagonalize"]
      [] op.kind = "Saver" ->
            IF ~op.flag
            THEN [r |-> monitor(op, wf, records), call |-> "monitor"]
            ELSE [r |-> Res(op, wf), call |-> "none"]
      [] op.kind = "Control" ->
            IF And(op.config, SecondHalf) # ApplyNone
            THEN [r |-> second_half(op, wf), call |-> "second_half"]
            ELSE [r |-> Res(op, wf), call |-> "none"]

\* The match arm of the second loop of step()
ReverseCall(op, wf, records) ==
    CASE op.kind = "Propagator" -> [r |-> apply(op, wf), call |-> "apply"]
      [] op.kind = "Diagonalization" ->
            IF op.flag
            THEN [r |-> inverse_diagonalize(op, wf), call |-> "inverse_diagonalize"]
            ELSE [r |-> diagonalize(op, wf), call |-> "diagonalize"]
      [] op.kind = "Saver" ->
            IF ~op.flag
            THEN [r |-> monitor(op, wf, records), call |-> "monitor"]
            ELSE [r |-> Res(op, wf), call |-> "none"]
      [] op.kind = "Control" ->
            IF And(op.config, SecondHalf) # ApplyNone
            THEN [r |-> second_half(op, wf), call |-> "second_half"]
            ELSE [r |-> Res(op, wf), call |-> "none"]

\* Propagation::new
Init ==
    /\ \E a \in InitArrays : wave_function = NewWaveFunction(a, <<SpaceGrid>>)
    /\ \E n \in 0..MaxStepNo : time_grid = [step_no |-> n]
    /\ operations = <<>>
    /\ pc = "idle"
    /\ pos = 0
    /\ steps_done = 0
    /\ calls = <<>>
    /\ visits = <<>>
    /\ visit_no = 0
    /\ before = wave_function
    /\ last_call = [method |-> "new", arg |-> Real(0)]

Push(op) ==
    /\ pc = "idle"
    /\ Len(operations) < MaxStack
    /\ operations' = Append(operations, op)
    /\ UNCHANGED <<wave_function, time_grid, pc, pos, steps_done, calls, visits,
                   visit_no, before, last_call>>

add_propagator ==
    \E op \in {NewPropagator(Mask, NewLossChecker), NewPropagator(Phase, NoLossChecker)} :
        Push(op)

add_diagonalization ==
    \/ Push(NewDiagonalization(MomentumGrid, TRUE))
    \/ Push(NewDiagonalization(SameNameGrid, FALSE))

add_saver == \E first \in BOOLEAN : Push(NewSaver(first))

add_control ==
    \/ \E config \in 0..3 : Push(NewLeakControl(config, NewLossChecker))
    \/ Push(NewBorderDumping(FirstHalf + SecondHalf, Mask, NoLossChecker))

\* propagate() is entered
propagate ==
    /\ pc = "idle"
    /\ pc' = "loop"
    /\ steps_done' = 0
    /\ visit_no' = 0
    /\ before' = wave_function
    /\ last_call' = [method |-> "propagate", arg |-> Real(0)]
    /\ UNCHANGED <<wave_function, operations, time_grid, pos, calls, visits>>

\* A loop over 0..=step_no
LoopContinuesInclusive == steps_done <= time_grid.step_no

\* for _ in 0..self.time_grid.step_no
LoopContinues == steps_done < time_grid.step_no

\* The head of the loop of propagate(): the loop is left, or step() is entered
\* (and with an empty stack it returns at once)
LoopHead ==
    /\ pc = "loop"
    /\ IF LoopContinues
       THEN /\ calls' = <<>>
            /\ visits' = <<>>
            /\ IF Len(operations) = 0
               THEN /\ steps_done' = steps_done + 1
                    /\ UNCHANGED <<pc, pos>>
               ELSE /\ pc' = "step"
                    /\ pos' = 1
                    /\ UNCHANGED steps_done
       ELSE /\ pc' = "done"
            /\ UNCHANGED <<pos, steps_done, calls, visits>>
    /\ UNCHANGED <<wave_function, operations, time_grid, visit_no, before, last_call>>

\* One iteration of one of the two loops of step(): the operation at the
\* current position is visited and runs to completion.
Visit(c) ==
    LET i == StepOrder(Len(operations))[pos]
    IN /\ operations' = [operations EXCEPT ![i] = c.r.op]
       /\ wave_function' = c.r.wf
       /\ visits' = Append(visits, i)
       /\ visit_no' = visit_no + 1
       /\ calls' = IF c.call = "none" THEN calls
                  ELSE Append(calls, [index |-> i, method |-> c.call,
                                      sweep |-> IF pos <= Len(operations)
                                                THEN "forward" ELSE "reverse"])
       /\ IF pos < Len(StepOrder(Len(operations)))
          THEN /\ pos' = pos + 1
               /\ UNCHANGED <<pc, steps_done>>
          ELSE /\ pos' = 0
               /\ pc' = "loop"
               /\ steps_done' = steps_done + 1
       /\ UNCHANGED <<time_grid, before, last_call>>

ForwardVisit ==
    /\ pc = "step"
    /\ pos <= Len(operations)
    /\ \E records \in BOOLEAN :
          Visit(ForwardCall(operations[StepOrder(Len(operations))[pos]],
                            wave_function, records))

ReverseVisit ==
    /\ pc = "step"
    /\ pos > Len(operations)
    /\ \E records \in BOOLEAN :
          Visit(ReverseCall(operations[StepOrder(Len(operations))[pos]],
                            wave_function, records))

Next ==
    \/ add_propagator
    \/ add_diagonalization
    \/ add_saver
    \/ add_control
    \/ propagate
    \/ LoopHead
    \/ ForwardVisit
    \/ ReverseVisit

Spec == Init /\ [][Next]_vars

----------------------------------------------------------------------------
(* A caller that holds the wave function and a set of objects and calls    *)
(* their public operations in any order.                                   *)

\* The objects the caller holds
Objects ==
    <<NewPropagator(Mask, NewLossChecker),
      NewPropagator(Phase, NoLossChecker),
      NewDiagonalization(MomentumGrid, TRUE),
      NewDiagonalization(SameNameGrid, TRUE),
      NewLeakControl(FirstHalf + SecondHalf, NoLossChecker),
      NewBorderDumping(FirstHalf + SecondHalf, Mask, NoLossChecker)>>

\* The targets normalize is called with
Targets == {Real(1), Real(2)}

WFInit ==
    /\ \E a \in InitArrays : wave_function = NewWaveFunction(a, <<SpaceGrid>>)
    /\ time_grid = [step_no |-> 0]
    /\ operations = Objects
    /\ pc = "caller"
    /\ pos = 0
    /\ steps_done = 0
    /\ calls = <<>>
    /\ visits = <<>>
    /\ visit_no = 0
    /\ before = wave_function
    /\ last_call = [method |-> "new", arg |-> Real(0)]

\* The caller's call returned: wf is the wave function it leaves
Returned(wf, method, arg) ==
    /\ pc = "caller"
    /\ visit_no < MaxCalls
    /\ wave_function' = wf
    /\ before' = wave_function
    /\ visit_no' = visit_no + 1
    /\ last_call' = [method |-> method, arg |-> arg]
    /\ UNCHANGED <<time_grid, pc, pos, steps_done, calls, visits>>

\* A call of a method of the object at index i
CallOn(i, r, method) ==
    /\ operations' = [operations EXCEPT ![i] = r.op]
    /\ Returned(r.wf, method, Real(i))

CallApply ==
    \E i \in DOMAIN operations :
        /\ operations[i].kind = "Propagator"
        /\ CallOn(i, apply(operations[i], wave_function), "apply")

CallDiagonalize ==
    \E i \in DOMAIN operations :
        /\ operations[i].kind = "Diagonalization"
        /\ CallOn(i, diagonalize(operations[i], wave_function), "diagonalize")

CallInverseDiagonalize ==
    \E i \in DOMAIN operations :
        /\ operations[i].kind = "Diagonalization"
        /\ CallOn(i, inverse_diagonalize(operations[i], wave_function),
                  "inverse_diagonalize")

CallFirstHalf ==
    \E i \in DOMAIN operations :
        /\ operations[i].kind = "Control"
        /\ CallOn(i, first_half(operations[i], wave_function), "first_half")

CallSecondHalf ==
    \E i \in DOMAIN operations :
        /\ operations[i].kind = "Control"
        /\ CallOn(i, second_half(operations[i], wave_function), "second_half")

CallNormalize ==
    \E t \in Targets :
        /\ Returned(normalize(wave_function, t), "normalize", t)
        /\ UNCHANGED operations

CallNorm ==
    /\ Returned(norm(wave_function).wf, "norm", norm(wave_function).value)
    /\ UNCHANGED operations

CallStateDensity ==
    /\ Returned(state_density(wave_function).wf, "state_density", Real(0))
    /\ UNCHANGED operations

\* Propagator::loss_reset
CallLossReset ==
    \E i \in DOMAIN operations :
        /\ operations[i].kind = "Propagator"
        /\ CallOn(i, Res(loss_reset(operations[i]), wave_function), "loss_reset")

WFNext ==
    \/ CallApply
    \/ CallDiagonalize
    \/ CallInverseDiagonalize
    \/ CallFirstHalf
    \/ CallSecondHalf
    \/ CallNormalize
    \/ CallNorm
    \/ CallStateDensity
    \/ CallLossReset

WFSpec == WFInit /\ [][WFNext]_vars

----------------------------------------------------------------------------
(* Wave functions of rank 1 and 2 with complex entries, and the three       *)
(* transformations (FFT, dense matrix, per-state matrix).                   *)
(*                                                                          *)
(* A complex number is <<a, b>>, a + b z, where z is the primitive root of  *)
(* unity the FFT of the first axis needs: z = i (z^2 = -1) for 2 and 4      *)
(* nodes, z = exp(2 pi i / 3) (z^2 = -1 - z) for 3 nodes.  An array is      *)
(* [v, s]: the entries v[index] times sqrt(s).  A grid built by the FFT has *)
(* nodes and weights that are rational multiples of pi: `unit` is the power *)
(* of pi its nodes and weights carry, so that sums of weights stay exact.   *)

\* Largest number of nodes of an axis
MaxNodes == 3

\* Calls the caller of the transformations makes
MaxTensorCalls == 3

\* z^2 = -1 - Ring * z
Ring(nodes_no) == IF nodes_no = 3 THEN 1 ELSE 0

CAdd(x, y) == <<x[1] + y[1], x[2] + y[2]>>

CMul(c, x, y) ==
    <<x[1] * y[1] - x[2] * y[2], x[1] * y[2] + x[2] * y[1] - c * x[2] * y[2]>>

RECURSIVE CPow(_, _, _)
CPow(c, x, n) == IF n = 0 THEN <<1, 0>> ELSE CMul(c, x, CPow(c, x, n - 1))

\* Complex64::norm_sqr
norm_sqr(c, x) == x[1] * x[1] + x[2] * x[2] - c * x[1] * x[2]

\* exp(-2 pi i / n) and exp(2 pi i / n), the twiddles of the forward and
\* of the inverse plan
ForwardRoot(n) ==
    IF n = 2 THEN <<-1, 0>> ELSE IF n = 3 THEN <<-1, -1>> ELSE <<0, -1>>

InverseRoot(n) == IF n = 2 THEN <<-1, 0>> ELSE <<0, 1>>

\* Fft::process of the forward / inverse plan of length n, as a matrix
FftMatrix(n, root) ==
    [k \in 1..n |-> [m \in 1..n |-> CPow(Ring(n), root, ((k - 1) * (m - 1)) % n)]]

\* A real matrix as a matrix of Complex64
ToComplex(matrix) ==
    [k \in DOMAIN matrix |-> [m \in DOMAIN matrix[k] |-> <<matrix[k][m], 0>>]]

Rank(shape) == Len(shape)

\* The index tuples of an array of the given shape
Indices(shape) ==
    IF Rank(shape) = 1
    THEN {<<i>> : i \in 1..shape[1]}
    ELSE {<<i, j>> : i \in 1..shape[1], j \in 1..shape[2]}

RECURSIVE SumSet(_, _)
SumSet(f, S) ==
    IF S = {} THEN 0
    ELSE LET x == CHOOSE y \in S : TRUE IN f[x] + SumSet(f, S \ {x})

RECURSIVE RSumSet(_, _)
RSumSet(f, S) ==
    IF S = {} THEN Real(0)
    ELSE LET x == CHOOSE y \in S : TRUE IN RAdd(f[x], RSumSet(f, S \ {x}))

RECURSIVE CSumSeq(_, _)
CSumSeq(f, k) == IF k = 0 THEN <<0, 0>> ELSE CAdd(f[k], CSumSeq(f, k - 1))

RECURSIVE GCDSet(_, _)
GCDSet(v, S) ==
    IF S = {} THEN 0
    ELSE LET x == CHOOSE y \in S : TRUE
         IN GCD(GCD(Abs(v[x][1]), Abs(v[x][2])), GCDSet(v, S \ {x}))

\* One representation per array value.
TCanon(v, s) ==
    LET g == GCDSet(v, DOMAIN v)
    IN IF g = 0 \/ s[1] = 0
       THEN [v |-> [x \in DOMAIN v |-> <<0, 0>>], s |-> Real(0)]
       ELSE [v |-> [x \in DOMAIN v |-> <<v[x][1] \div g, v[x][2] \div g>>],
             s |-> RMul(s, Real(g * g))]

\* The array of the tests: 1, 2, 3, .. in row-major order
CountingArray(shape) ==
    TCanon([x \in Indices(shape) |->
               IF Rank(shape) = 1 THEN <<x[1], 0>>
               ELSE <<(x[1] - 1) * shape[2] + x[2], 0>>],
           Real(1))

\* lane.assign(&matrix.dot(&lane)) for the lane along axis d through x
LaneDot(c, matrix, v, d, x) ==
    CSumSeq([m \in 1..Len(matrix[x[d]]) |->
                CMul(c, matrix[x[d]][m], v[[x EXCEPT ![d] = m]])],
            Len(matrix[x[d]]))

\* Grid with its nodes; nodes and weights are multiples of pi^unit
GridOf(name, dimension_no, nodes, weights, unit) ==
    [name |-> name, dimension_no |-> dimension_no, nodes_no |-> Len(nodes),
     nodes |-> nodes, weights |-> weights, unit |-> unit]

new_linear_continuos(name, start_position, end_position, nodes_no, dimension_no) ==
    LET step == RDiv(Real(end_position - start_position), Real(nodes_no - 1))
    IN GridOf(name, dimension_no,
              [i \in 1..nodes_no |-> RAdd(Real(start_position), RMul(step, Real(i - 1)))],
              [i \in 1..nodes_no |-> IF i = 1 \/ i = nodes_no
                                     THEN RMul(Rat(1, 2), step) ELSE step],
              0)

new_linear_countable(name, start_position, end_position, nodes_no, dimension_no) ==
    LET step == RDiv(Real(end_position - start_position), Real(nodes_no - 1))
    IN GridOf(name, dimension_no,
              [i \in 1..nodes_no |-> RAdd(Real(start_position), RMul(step, Real(i - 1)))],
              [i \in 1..nodes_no |-> step],
              0)

new_custom(name, nodes, weights, dimension_no, unit) ==
    GridOf(name, dimension_no, nodes, weights, unit)

\* A value with its power of pi; zero has one representation
PiValue(q, unit) == [q |-> q, pi |-> IF q = Real(0) THEN 0 ELSE unit]

RECURSIVE UnitSum(_, _)
UnitSum(grids, k) == IF k = 0 THEN 0 ELSE grids[k].unit + UnitSum(grids, k - 1)

\* lane * weights broadcasts: the lengths agree or the weights have length 1
Broadcasts(shape, grids) ==
    \A k \in 1..Rank(shape) : Len(grids[k].weights) \in {shape[k], 1}

\* The loop over the axes of WaveFunction::new and
\* update_weight_amplitude_array: every lane along the axis is multiplied by
\* sqrt(weights) of that axis; an entry is kept as its square.
RECURSIVE WeightLoop(_, _, _)
WeightLoop(w, grids, axis) ==
    IF axis > Len(grids) THEN w
    ELSE WeightLoop([x \in DOMAIN w |->
                        RMul(w[x], IF Len(grids[axis].weights) = 1
                                   THEN grids[axis].weights[1]
                                   ELSE grids[axis].weights[x[axis]])],
                    grids, axis + 1)

\* Variant: only the weights of the first axis are multiplied in
WeightsOfFirstAxisOnly(shape, grids) ==
    [x \in Indices(shape) |-> grids[1].weights[x[1]]]

update_weight_amplitude_array(shape, grids) ==
    WeightLoop([x \in Indices(shape) |-> Real(1)], grids, 1)

\* WaveFunction::new
WaveFunctionNew(shape, array, grids) ==
    [shape |-> shape,
     array |-> array,
     grids |-> grids,
     weight_amplitude_array |-> update_weight_amplitude_array(shape, grids),
     weight_unit |-> UnitSum(grids, Len(grids)),
     last_grid_names |-> GridNames(grids),
     last_norm |-> PiValue(Real(1), 0),
     possible_norm_change |-> TRUE]

\* update_weight_amplitude_array and observe_grid when a grid name changed;
\* ok is FALSE when the multiplication of a lane by the weights panics
RefreshWeightsND(wf) ==
    IF has_grid_changed(wf)
    THEN IF Broadcasts(wf.shape, wf.grids)
         THEN [ok |-> TRUE,
               wf |-> [wf EXCEPT
                          !.weight_amplitude_array =
                              update_weight_amplitude_array(wf.shape, wf.grids),
                          !.weight_unit = UnitSum(wf.grids, Len(wf.grids)),
                          !.last_grid_names = GridNames(wf.grids)]]
         ELSE [ok |-> FALSE, wf |-> wf]
    ELSE [ok |-> TRUE, wf |-> wf]

\* sum of |array|^2 * |weight_amplitude_array|^2
WeightedSumND(wf) ==
    PiValue(RMul(wf.array.s,
                 RSumSet([x \in Indices(wf.shape) |->
                             RMul(Real(norm_sqr(Ring(wf.shape[1]), wf.array.v[x])),
                                  wf.weight_amplitude_array[x])],
                         Indices(wf.shape))),
            wf.weight_unit)

\* WaveFunction::norm for any rank
norm_nd(wf) ==
    IF wf.possible_norm_change = FALSE
    THEN [ok |-> TRUE, wf |-> wf, value |-> wf.last_norm]
    ELSE LET r == RefreshWeightsND(wf)
         IN IF r.ok
            THEN [ok |-> TRUE,
                  wf |-> observe_norm(r.wf, WeightedSumND(r.wf)),
                  value |-> WeightedSumND(r.wf)]
            ELSE [ok |-> FALSE, wf |-> wf, value |-> wf.last_norm]

\* WaveFunction::density
density(wf) ==
    [x \in Indices(wf.shape) |->
        RMul(wf.array.s, Real(norm_sqr(Ring(wf.shape[1]), wf.array.v[x])))]

\* WaveFunction::state_density(axis), axis counted from 1
state_density_nd(wf, axis) ==
    LET r == RefreshWeightsND(wf)
        d == density(r.wf)
    IN IF ~r.ok THEN [ok |-> FALSE, wf |-> wf, value |-> <<>>]
       ELSE [ok |-> TRUE,
             wf |-> r.wf,
             value |->
                IF Rank(wf.shape) = 1
                THEN [j \in 1..wf.shape[1] |-> PiValue(d[<<j>>], 0)]
                ELSE [j \in 1..wf.shape[axis] |->
                        PiValue(RSumSet([x \in Indices(wf.shape) |->
                                            RMul(d[x], r.wf.weight_amplitude_array[x])],
                                        {x \in Indices(wf.shape) : x[axis] = j}),
                                r.wf.weight_unit)]]

\* The matrices given to the matrix transformations of an axis of n nodes:
\* the cyclic shift that negates the entry it wraps around, and its inverse
Shift(n) ==
    [i \in 1..n |-> [j \in 1..n |-> IF i = 1 THEN (IF j = n THEN -1 ELSE 0)
                                    ELSE (IF j = i - 1 THEN 1 ELSE 0)]]

InverseShift(n) ==
    [i \in 1..n |-> [j \in 1..n |-> IF i = n THEN (IF j = 1 THEN -1 ELSE 0)
                                    ELSE (IF j = i + 1 THEN 1 ELSE 0)]]

MatMul(a, b, n) ==
    [i \in 1..n |-> [j \in 1..n |-> SumTo([m \in 1..n |-> a[i][m] * b[m][j]], n)]]

RECURSIVE MatPow(_, _, _)
MatPow(a, k, n) == IF k = 1 THEN a ELSE MatMul(a, MatPow(a, k - 1, n), n)

\* One record shape for the three transformations.
\*   kind                    FFT | Matrix | StateMatrix
\*   dimension_no            the axis transformed (counted from 0)
\*   dimension_size          the size the FFT normalizes with
\*   dimension_no_dependent  the outer axis of a per-state transformation
\*   transformations, inverse_transformations
\*                           the forward / inverse plan of an FFT, the matrix
\*                           of a dense transformation, the matrices of a
\*                           per-state transformation
\*   grid_transformation     the grid the transformation holds

\* FFTDiagonalization::new (momentum_step 2 pi / (last - first)) and
\* FFTTransformation::new (with_factor: times (1 - 1 / nodes_no))
FFTNew(grid, transformed_grid_name, with_factor) ==
    LET length == grid.nodes_no
        half == length \div 2
        base == RDiv(Real(2), RSub(grid.nodes[Len(grid.nodes)], grid.nodes[1]))
        momentum_step == IF with_factor
                         THEN RMul(base, RSub(Real(1), Rat(1, length)))
                         ELSE base
        momenta == [k \in 1..(2 * half) |->
                       RMul(Real(IF k <= half THEN k - 1 ELSE k - 1 - 2 * half),
                            momentum_step)]
        weights == [k \in 1..Len(momenta) |->
                       IF k = half \/ k = half + 1
                       THEN RMul(momentum_step, Rat(1, 2)) ELSE momentum_step]
        new_grid == new_custom(transformed_grid_name, momenta, weights,
                               grid.dimension_no, 1)
    IN [kind |-> "FFT",
        dimension_no |-> new_grid.dimension_no,
        dimension_size |-> new_grid.nodes_no,
        dimension_no_dependent |-> 0,
        transformations |-> <<FftMatrix(length, ForwardRoot(length))>>,
        inverse_transformations |-> <<FftMatrix(length, InverseRoot(length))>>,
        grid_transformation |-> new_grid]

\* MatrixTransformation::new and set_diagonalization_matrix
MatrixNew(grid, grid_transformation, transformation, inverse_transformation) ==
    [kind |-> "Matrix",
     dimension_no |-> grid.dimension_no,
     dimension_size |-> grid.nodes_no,
     dimension_no_dependent |-> 0,
     transformations |-> <<ToComplex(transformation)>>,
     inverse_transformations |-> <<ToComplex(inverse_transformation)>>,
     grid_transformation |-> grid_transformation]

\* StateMatrixTransformation::new and set_diagonalization_matrices
StateMatrixNew(dimension_no_dependent, grid, grid_transformation, transformations, inverse_transformations) ==
    [kind |-> "StateMatrix",
     dimension_no |-> grid.dimension_no,
     dimension_size |-> grid.nodes_no,
     dimension_no_dependent |-> dimension_no_dependent,
     transformations |-> [j \in DOMAIN transformations |-> ToComplex(transformations[j])],
     inverse_transformations |->
        [j \in DOMAIN inverse_transformations |-> ToComplex(inverse_transformations[j])],
     grid_transformation |-> grid_transformation]

\* Variant: every slice of the outer axis is transformed with the first
\* matrix
TransformedWithFirstMatrix(op, wf, matrices) ==
    LET c == Ring(wf.shape[1])
        d == op.dimension_no + 1
        v == wf.array.v
    IN TCanon([x \in DOMAIN v |->
                  IF Len(matrices) >= 1 THEN LaneDot(c, matrices[1], v, d, x) ELSE v[x]],
              IF op.kind = "FFT" THEN RDiv(wf.array.s, Real(op.dimension_size))
              ELSE wf.array.s)

\* The array after the lanes along the axis of op were transformed with
\* the given plan / matrix / matrices
TransformedArray(op, wf, matrices) ==
    LET c == Ring(wf.shape[1])
        d == op.dimension_no + 1
        e == op.dimension_no_dependent + 1
        v == wf.array.v
    IN CASE op.kind = "FFT" ->
                TCanon([x \in DOMAIN v |-> LaneDot(c, matrices[1], v, d, x)],
                       RDiv(wf.array.s, Real(op.dimension_size)))
         [] op.kind = "Matrix" ->
                TCanon([x \in DOMAIN v |-> LaneDot(c, matrices[1], v, d, x)], wf.array.s)
         [] op.kind = "StateMatrix" ->
                \* transformations.iter().zip(array.axis_iter_mut(..))
                TCanon([x \in DOMAIN v |->
                           IF x[e] <= Len(matrices)
                           THEN LaneDot(c, matrices[x[e]], v, d, x)
                           ELSE v[x]],
                       wf.array.s)

\* grids[dimension_no].swap(grid_transformation), the flag, the lanes
SwapAndTransform(op, wf, matrices) ==
    Res([op EXCEPT !.grid_transformation = wf.grids[op.dimension_no + 1]],
        [wf EXCEPT !.grids[op.dimension_no + 1] = op.grid_transformation,
                   !.possible_norm_change = TRUE,
                   !.array = TransformedArray(op, wf, matrices)])

transform(op, wf) == SwapAndTransform(op, wf, op.transformations)

inverse_transform(op, wf) == SwapAndTransform(op, wf, op.inverse_transformations)

\* The shapes of the wave functions
TensorShapes ==
    {<<n>> : n \in 2..MaxNodes} \cup {<<n, m>> : n \in 2..MaxNodes, m \in 2..MaxNodes}

\* The grids the wave function is built on, one per axis
TensorGrids(shape) ==
    [k \in 1..Rank(shape) |->
        IF k = 1 THEN new_linear_continuos("x", 0, 1, shape[1], 0)
        ELSE new_linear_countable("y", 0, 1, shape[2], 1)]

\* The replacement grid a matrix transformation is constructed with
CustomGrid(name, nodes_no, dimension_no) ==
    new_custom(name, [i \in 1..nodes_no |-> Real(i)], [i \in 1..nodes_no |-> Real(i)],
               dimension_no, 0)

\* The transformations the caller holds: an FFT of the first axis, a dense
\* matrix of the last axis and, for rank 2, a per-state matrix of the first
\* axis that depends on the second and was given matrices_no matrices
TensorObjects(shape, grids, with_factor, matrices_no) ==
    LET last == Rank(shape)
        fft == FFTNew(grids[1], "x_fft", with_factor)
        dense == MatrixNew(grids[last], CustomGrid("dense", shape[last], last - 1),
                           Shift(shape[last]), InverseShift(shape[last]))
        state == StateMatrixNew(1, grids[1], CustomGrid("state", shape[1], 0),
                     [j \in 1..matrices_no |-> MatPow(Shift(shape[1]), j, shape[1])],
                     [j \in 1..matrices_no |-> MatPow(InverseShift(shape[1]), j, shape[1])])
    IN IF last = 1 THEN <<fft, dense>> ELSE <<fft, dense, state>>

TensorInit ==
    /\ \E shape \in TensorShapes, with_factor \in BOOLEAN :
          \E matrices_no \in {shape[Rank(shape)] - 1, shape[Rank(shape)]} :
             /\ wave_function = WaveFunctionNew(shape, CountingArray(shape),
                                                TensorGrids(shape))
             /\ operations = TensorObjects(shape, TensorGrids(shape), with_factor,
                                           matrices_no)
    /\ time_grid = [step_no |-> 0]
    /\ pc = "tensor"
    /\ pos = 0
    /\ steps_done = 0
    /\ calls = <<>>
    /\ visits = <<>>
    /\ visit_no = 0
    /\ before = wave_function
    /\ last_call = [method |-> "new", arg |-> Real(0)]

\* The last two entries of a sequence
LastTwo(seq) == IF Len(seq) <= 2 THEN seq ELSE SubSeq(seq, Len(seq) - 1, Len(seq))

\* A call of the caller returned, or panicked (ok is FALSE): calls keeps the
\* last two calls, visits the wave function and the objects before each
TensorReturned(ok, wf, ops, method, index, value) ==
    /\ pc = "tensor"
    /\ visit_no < MaxTensorCalls
    /\ IF ok
       THEN /\ wave_function' = wf
            /\ operations' = ops
            /\ pc' = pc
       ELSE /\ pc' = "aborted"
            /\ UNCHANGED <<wave_function, operations>>
    /\ before' = wave_function
    /\ visits' = LastTwo(Append(visits, [wf |-> wave_function, ops |-> operations]))
    /\ calls' = LastTwo(Append(calls, [index |-> index, method |-> method,
                                       value |-> value]))
    /\ visit_no' = visit_no + 1
    /\ last_call' = [method |-> method, arg |-> Real(index)]
    /\ UNCHANGED <<time_grid, pos, steps_done>>

CallTransform ==
    \E i \in DOMAIN operations :
        LET r == transform(operations[i], wave_function)
        IN TensorReturned(TRUE, r.wf, [operations EXCEPT ![i] = r.op],
                          "transform", i, <<>>)

CallInverseTransform ==
    \E i \in DOMAIN operations :
        LET r == inverse_transform(operations[i], wave_function)
        IN TensorReturned(TRUE, r.wf, [operations EXCEPT ![i] = r.op],
                          "inverse_transform", i, <<>>)

CallNormND ==
    LET r == norm_nd(wave_function)
    IN TensorReturned(r.ok, r.wf, operations, "norm", 0, <<r.value>>)

CallStateDensityND ==
    \E axis \in 1..Rank(wave_function.shape) :
        LET r == state_density_nd(wave_function, axis)
        IN TensorReturned(r.ok, r.wf, operations, "state_density", axis, r.value)

TensorNext ==
    \/ CallTransform
    \/ CallInverseTransform
    \/ CallNormND
    \/ CallStateDensityND

TensorSpec == TensorInit /\ [][TensorNext]_vars

----------------------------------------------------------------------------
(* mean_energy(), get_losses() and reset_losses() of a Propagation whose    *)
(* stack is built from propagators and controls with and without loss       *)
(* checkers.                                                                 *)

\* Calls of mean_energy
MaxEnergyCalls == 2

\* The operations the stack is built from
EnergyOperations ==
    {NewPropagator(Mask, NewLossChecker),
     NewPropagator(Phase, NoLossChecker),
     NewLeakControl(FirstHalf + SecondHalf, NewLossChecker),
     NewLeakControl(FirstHalf + SecondHalf, NoLossChecker),
     NewBorderDumping(FirstHalf + SecondHalf, Mask, NewLossChecker)}

\* Propagation::new with a time grid in real or in imaginary time
EnergyInit ==
    /\ \E a \in InitArrays : wave_function = NewWaveFunction(a, <<SpaceGrid>>)
    /\ \E im_time \in BOOLEAN : time_grid = [step_no |-> 0, im_time |-> im_time]
    /\ operations = <<>>
    /\ pc = "idle"
    /\ pos = 0
    /\ steps_done = 0
    /\ calls = <<>>
    /\ visits = <<>>
    /\ visit_no = 0
    /\ before = wave_function
    /\ last_call = [method |-> "new", arg |-> <<>>]

\* add_propagator and add_control
AddOperation ==
    \E op \in EnergyOperations :
        /\ pc = "idle"
        /\ Len(operations) < MaxStack
        /\ operations' = Append(operations, op)
        /\ last_call' = [method |-> "add", arg |-> <<>>]
        /\ UNCHANGED <<wave_function, time_grid, pc, pos, steps_done, calls, visits,
                       visit_no, before>>

RECURSIVE get_losses_of_every_checker(_)
\* A get_losses with the match arms of print_losses
get_losses_of_every_checker(ops) ==
    IF ops = <<>> THEN <<>>
    ELSE (IF Head(ops).kind \in {"Propagator", "Control"} /\ Head(ops).loss_checked.some
          THEN <<Head(ops).loss_checked.loss>> ELSE <<>>)
         \o get_losses_of_every_checker(Tail(ops))

RECURSIVE get_losses(_)
\* Propagation::get_losses: the loop over the stack pushes the loss of the
\* propagators that have a loss checker
get_losses(ops) ==
    IF ops = <<>> THEN <<>>
    ELSE (IF Head(ops).kind = "Propagator" /\ Head(ops).loss_checked.some
          THEN <<Head(ops).loss_checked.loss>> ELSE <<>>)
         \o get_losses(Tail(ops))

\* Propagation::reset_losses
reset_losses(ops) ==
    [i \in DOMAIN ops |->
        IF ops[i].kind = "Propagator" THEN loss_reset(ops[i]) ELSE ops[i]]

CallGetLosses ==
    /\ pc = "idle"
    /\ last_call' = [method |-> "get_losses", arg |-> get_losses(operations)]
    /\ UNCHANGED <<wave_function, operations, time_grid, pc, pos, steps_done, calls,
                   visits, visit_no, before>>

CallResetLosses ==
    /\ pc = "idle"
    /\ operations' = reset_losses(operations)
    /\ last_call' = [method |-> "reset_losses", arg |-> <<>>]
    /\ UNCHANGED <<wave_function, time_grid, pc, pos, steps_done, calls, visits,
                   visit_no, before>>

\* The first match of mean_energy in imaginary time passes: operations[0]
\* exists, is a control named LeakControl and has a loss checker
FirstIsCheckedLeakControl(ops) ==
    /\ Len(ops) >= 1
    /\ ops[1].kind = "Control"
    /\ ops[1].name = "LeakControl"
    /\ ops[1].loss_checked.some

\* A mean_energy that does not reset the loss before the step
KeepLossOnEntry(ops, im_time) == ops

\* The stack mean_energy leaves before it calls step()
ResetOnEntry(ops, im_time) ==
    IF im_time THEN [ops EXCEPT ![1].loss_checked = LossReset(@)] ELSE ops

\* mean_energy() up to its call of step(): in imaginary time it panics
\* unless the first element is a LeakControl with a loss checker.  The
\* argument kept in last_call is the stack step() is called on.
mean_energy ==
    /\ pc = "idle"
    /\ steps_done < MaxEnergyCalls
    /\ before' = wave_function
    /\ calls' = <<>>
    /\ visits' = <<>>
    /\ IF time_grid.im_time /\ ~FirstIsCheckedLeakControl(operations)
       THEN /\ pc' = "aborted"
            /\ last_call' = [method |-> "mean_energy", arg |-> <<>>]
            /\ UNCHANGED <<operations, pos, steps_done>>
       ELSE /\ operations' = ResetOnEntry(operations, time_grid.im_time)
            /\ last_call' = [method |-> "mean_energy", arg |-> operations']
            /\ IF Len(operations) = 0
               THEN /\ pc' = "loop"
                    /\ steps_done' = steps_done + 1
                    /\ UNCHANGED pos
               ELSE /\ pc' = "step"
                    /\ pos' = 1
                    /\ UNCHANGED steps_done
    /\ UNCHANGED <<wave_function, time_grid, visit_no>>

\* The assertion of WaveFunction::dot: after norm() of both wave functions
\* their weight_amplitude_array are equal
DotAssertion(wf, other) ==
    norm(wf).wf.weight_amplitude_array = norm(other).wf.weight_amplitude_array

\* WaveFunction::dot of two real arrays: the sign of the weighted sum of the
\* products and the square of its quotient by sqrt(norm_1 * norm_2)
dot(wf, other) ==
    LET w == norm(wf).wf.weight_amplitude_array
        sum == SumTo([i \in Idx |-> wf.array.v[i] * other.array.v[i] * w[i]], DimSize)
    IN [sign |-> IF sum > 0 THEN 1 ELSE IF sum < 0 THEN -1 ELSE 0,
        sqr |-> RDiv(RMul(Real(sum * sum), RMul(wf.array.s, other.array.s)),
                     RMul(norm(wf).value, norm(other).value))]

\* mean_energy() after step() has returned.  In imaginary time the energy is
\* -ln(norm() - decay) / step, decay being the loss of the first element;
\* in real time it is -arg(dot(wave_after, wave_before)) / step, of two
\* clones, and the call aborts when the assertion of dot fails.  The call
\* returns the operand of ln or of arg.
mean_energy_return ==
    /\ pc = "loop"
    /\ IF time_grid.im_time
       THEN LET decay == operations[1].loss_checked.loss
                r == norm(wave_function)
            IN /\ wave_function' = r.wf
               /\ pc' = "idle"
               /\ last_call' = [method |-> "mean_energy_return",
                                arg |-> [decay |-> decay,
                                         operand |-> RSub(r.value, decay)]]
       ELSE /\ wave_function' = wave_function
            /\ pc' = IF DotAssertion(wave_function, before) THEN "idle" ELSE "aborted"
            /\ last_call' = [method |-> "mean_energy_return",
                             arg |-> [decay |-> Real(0),
                                      operand |-> dot(wave_function, before)]]
    /\ UNCHANGED <<operations, time_grid, pos, steps_done, calls, visits, visit_no,
                   before>>

EnergyNext ==
    \/ AddOperation
    \/ mean_energy
    \/ ForwardVisit
    \/ ReverseVisit
    \/ mean_energy_return
    \/ CallGetLosses
    \/ CallResetLosses

EnergySpec == EnergyInit /\ [][EnergyNext]_vars

----------------------------------------------------------------------------
(* A caller that constructs one propagator for the wave function, gives it  *)
(* operators with set_operator and add_operator, and applies it.            *)

\* The lengths of the operators and of the `shape` given to
\* OneDimPropagator::new: the axis length, and lengths below and above it
OperatorLengths == 1..(DimSize + 1)

\* The operators of a given length: a mask of the last entry and a sign flip
OperatorsOfLength(n) ==
    {[i \in 1..n |-> IF i = n THEN 0 ELSE 1], [i \in 1..n |-> IF i = 1 THEN 1 ELSE -1]}

\* OneDimPropagator::new(_example_wave_function, shape, dimension_no)
OneDimNew(example_wave_function, shape) ==
    [NewPropagator([i \in 1..shape |-> 0], NoLossChecker) EXCEPT
        !.name = "OneDimPropagator"]

\* NDimPropagator::new(example_wave_function)
NDimNew(example_wave_function) ==
    [NewPropagator([i \in 1..example_wave_function.grids[1].nodes_no |-> 0],
                   NoLossChecker) EXCEPT
        !.name = "NDimPropagator"]

\* assert!(operator.shape()[0] == self.operator.shape()[0])
AssertSameShape(op, operator, wf) == Len(operator) = Len(op.operator)

\* lane *= &self.operator: ndarray broadcasts an operator of length 1 and
\* panics on any other length that is not the length of the lane
LaneMul(array, operator) ==
    IF Len(operator) = DimSize
    THEN [ok |-> TRUE, array |-> MulLane(array, operator)]
    ELSE IF Len(operator) = 1
    THEN [ok |-> TRUE, array |-> MulLane(array, [i \in Idx |-> operator[1]])]
    ELSE [ok |-> FALSE, array |-> array]

PropagatorInit ==
    /\ \E a \in InitArrays : wave_function = NewWaveFunction(a, <<SpaceGrid>>)
    /\ \/ \E shape \in OperatorLengths :
             operations = <<OneDimNew(wave_function, shape)>>
       \/ operations = <<NDimNew(wave_function)>>
    /\ time_grid = [step_no |-> 0]
    /\ pc = "propagator"
    /\ pos = 0
    /\ steps_done = 0
    /\ calls = <<>>
    /\ visits = <<>>
    /\ visit_no = 0
    /\ before = wave_function
    /\ last_call = [method |-> "new", arg |-> <<>>]

\* The last three entries of a sequence
LastThree(seq) == IF Len(seq) <= 3 THEN seq ELSE SubSeq(seq, Len(seq) - 2, Len(seq))

\* An add_operator that adds the operator to the stored one
SumOperator(stored, operator) ==
    [i \in DOMAIN stored |-> stored[i] + operator[i]]

\* self.operator *= &operator
MulOperator(stored, operator) ==
    [i \in DOMAIN stored |-> stored[i] * operator[i]]

\* A call on the propagator returned or panicked; visits keeps the operator
\* the propagator held before the call, calls the last three calls
PropagatorReturned(ok, operator, wf, method, arg) ==
    /\ pc = "propagator"
    /\ visit_no < MaxCalls
    /\ pc' = IF ok THEN pc ELSE "aborted"
    /\ operations' = [operations EXCEPT ![1].operator = operator]
    /\ wave_function' = wf
    /\ before' = wave_function
    /\ visits' = <<operations[1].operator>>
    /\ visit_no' = visit_no + 1
    /\ last_call' = [method |-> method, arg |-> arg]
    /\ calls' = LastThree(Append(calls, [method |-> method, arg |-> arg]))
    /\ UNCHANGED <<time_grid, pos, steps_done>>

set_operator ==
    \E n \in OperatorLengths : \E operator \in OperatorsOfLength(n) :
        IF AssertSameShape(operations[1], operator, wave_function)
        THEN PropagatorReturned(TRUE, operator, wave_function, "set_operator", operator)
        ELSE PropagatorReturned(FALSE, operations[1].operator, wave_function,
                                "set_operator", operator)

add_operator ==
    \E n \in OperatorLengths : \E operator \in OperatorsOfLength(n) :
        IF AssertSameShape(operations[1], operator, wave_function)
        THEN PropagatorReturned(TRUE, MulOperator(operations[1].operator, operator),
                                wave_function, "add_operator", operator)
        ELSE PropagatorReturned(FALSE, operations[1].operator, wave_function,
                                "add_operator", operator)

\* Propagator::apply of a propagator without loss checker
CallApplyAny ==
    LET r == LaneMul(wave_function.array, operations[1].operator)
    IN PropagatorReturned(r.ok, operations[1].operator,
                          [wave_function EXCEPT !.possible_norm_change = TRUE,
                                                !.array = r.array],
                          "apply", <<>>)

PropagatorNext ==
    \/ set_operator
    \/ add_operator
    \/ CallApplyAny

PropagatorSpec == PropagatorInit /\ [][PropagatorNext]_vars

----------------------------------------------------------------------------
(* NonDiagPropagator on real wave functions of rank 2 and 3.  An array is   *)
(* a function on index tuples; the operators are dense matrices.            *)

\* Calls of apply
MaxBlockCalls == 2

\* The index tuples of an array of rank 1, 2 or 3
IndexTuples(shape) ==
    IF Len(shape) = 1 THEN {<<i>> : i \in 1..shape[1]}
    ELSE IF Len(shape) = 2 THEN {<<i, j>> : i \in 1..shape[1], j \in 1..shape[2]}
    ELSE {<<i, j, k>> : i \in 1..shape[1], j \in 1..shape[2], k \in 1..shape[3]}

RECURSIVE LaneOffset(_, _, _, _)
\* The position, counted from 0, of the lane along axis d through x among
\* the lanes along d in logical (row-major) order of the other axes, taken
\* over the first `axis` axes
LaneOffset(shape, d, x, axis) ==
    IF axis = 0 THEN 0
    ELSE IF axis = d THEN LaneOffset(shape, d, x, axis - 1)
    ELSE LaneOffset(shape, d, x, axis - 1) * shape[axis] + (x[axis] - 1)

\* array.lanes_mut(Axis(d)): the number, counted from 1, of the lane through x
LaneNo(shape, d, x) == LaneOffset(shape, d, x, Len(shape)) + 1

\* The array of the tests of any rank: 1, 2, 3, .. in row-major order
RowMajorArray(shape) ==
    [x \in IndexTuples(shape) |-> LaneOffset(shape, 0, x, Len(shape)) + 1]

\* op.dot(&lane) at the entry x of the lane along axis d through x
MatrixDotLane(matrix, v, d, x) ==
    SumTo([m \in 1..Len(matrix[x[d]]) |-> matrix[x[d]][m] * v[[x EXCEPT ![d] = m]]],
          Len(matrix[x[d]]))

\* NonDiagPropagator::new(dimension_no)
NonDiagNew(dimension_no) ==
    [kind |-> "NonDiag", dimension_no |-> dimension_no, operators |-> <<>>]

\* The operators of a block-per-state propagator of axis d conditioned by
\* axis e: one matrix per index of e, every two of them different
BlockOperators(shape, d, e) ==
    [j \in 1..shape[e] |-> MatPow(Shift(shape[d]), j, shape[d])]

\* self.operators.iter().zip(array.lanes_mut(Axis(dimension_no))): the k-th
\* operator meets the k-th lane, and the shorter sequence ends the loop
NonDiagApplyUnchecked(op, wf) ==
    LET d == op.dimension_no + 1
    IN [wf EXCEPT
          !.possible_norm_change = TRUE,
          !.array = [x \in DOMAIN wf.array |->
                        IF LaneNo(wf.shape, d, x) <= Len(op.operators)
                        THEN MatrixDotLane(op.operators[LaneNo(wf.shape, d, x)],
                                           wf.array, d, x)
                        ELSE wf.array[x]]]

\* The shapes of the wave functions of rank 2 and 3
BlockShapes ==
    {<<n, m>> : n \in 2..MaxNodes, m \in 2..MaxNodes}
        \cup {<<n, m, l>> : n \in 2..MaxNodes, m \in 2..MaxNodes, l \in 2..MaxNodes}

BlockInit ==
    /\ \E shape \in BlockShapes : \E dimension_no \in 0..(Len(shape) - 2) :
          /\ wave_function = [shape |-> shape, array |-> RowMajorArray(shape),
                              possible_norm_change |-> TRUE]
          /\ operations = <<NonDiagNew(dimension_no)>>
    /\ time_grid = [step_no |-> 0]
    /\ pc = "block"
    /\ pos = 0
    /\ steps_done = 0
    /\ calls = <<>>
    /\ visits = <<>>
    /\ visit_no = 0
    /\ before = wave_function
    /\ last_call = [method |-> "new", arg |-> 0]

\* set_operators with the matrices of some outer axis e > d; pos keeps e
set_operators ==
    /\ pc = "block"
    /\ \E e \in (operations[1].dimension_no + 2)..Len(wave_function.shape) :
          /\ operations' = [operations EXCEPT ![1].operators =
                                BlockOperators(wave_function.shape,
                                               operations[1].dimension_no + 1, e)]
          /\ pos' = e
          /\ last_call' = [method |-> "set_operators", arg |-> e]
    /\ UNCHANGED <<wave_function, time_grid, pc, steps_done, calls, visits, visit_no,
                   before>>

\* Propagator::apply of a NonDiagPropagator without loss checker
CallApplyBlock ==
    /\ pc = "block"
    /\ visit_no < MaxBlockCalls
    /\ wave_function' = NonDiagApplyUnchecked(operations[1], wave_function)
    /\ before' = wave_function
    /\ visit_no' = visit_no + 1
    /\ last_call' = [method |-> "apply", arg |-> pos]
    /\ UNCHANGED <<operations, time_grid, pc, pos, steps_done, calls, visits>>

BlockNext ==
    \/ set_operators
    \/ CallApplyBlock

BlockSpec == BlockInit /\ [][BlockNext]_vars

----------------------------------------------------------------------------
(* The lane tasks of one operator.  The lanes along the operator's axis are *)
(* handed to parallel tasks (par_bridge, par_for_each): a task reads its    *)
(* lane, computes, and writes its lane; the tasks interleave in any order. *)
(* An entry of the array is [c, r]: the complex number c divided r times   *)
(* by sqrt(dimension_size).                                                 *)

\* Runs of the operator
MaxLaneRuns == 2

\* The number of lanes along axis d
LanesNo(shape, d) == Cardinality({LaneNo(shape, d, x) : x \in IndexTuples(shape)})

\* A task that takes its input from the lane after its own
NextLaneElement(shape, d, k, i) ==
    CHOOSE x \in IndexTuples(shape) :
        LaneNo(shape, d, x) = (k % LanesNo(shape, d)) + 1 /\ x[d] = i

\* The index of the i-th element of the k-th lane along axis d
LaneElement(shape, d, k, i) ==
    CHOOSE x \in IndexTuples(shape) : LaneNo(shape, d, x) = k /\ x[d] = i

\* The elements of the array the task of lane k writes
LaneElements(shape, d, k) == {LaneElement(shape, d, k, i) : i \in 1..shape[d]}

\* matrix.dot(&lane) for a lane given as the sequence of its entries
CDot(c, matrix, lane) ==
    [i \in 1..Len(lane) |->
        CSumSeq([m \in 1..Len(lane) |-> CMul(c, matrix[i][m], lane[m].c)], Len(lane))]

\* The operators whose lanes run in parallel, for axis d of a rank 2 array:
\* OneDimPropagator (operator), FFTDiagonalization (the plan as a matrix),
\* MatrixTransformation (transformation), StateMatrixTransformation
\* (transformations, outer axis e) and NonDiagPropagator (operators)
LaneOperator(kind, shape, d) ==
    [kind |-> kind,
     dimension_no |-> d - 1,
     dimension_no_dependent |-> d,
     operator |-> [i \in 1..shape[d] |-> IF i = 1 THEN <<2, 0>> ELSE <<0, 1>>],
     matrices |->
        CASE kind = "FFT" -> <<FftMatrix(shape[d], ForwardRoot(shape[d]))>>
          [] kind = "Matrix" -> <<ToComplex(Shift(shape[d]))>>
          [] kind \in {"StateMatrix", "NonDiag"} ->
                [j \in 1..LanesNo(shape, d) |->
                    ToComplex(MatPow(Shift(shape[d]), j, shape[d]))]
          [] OTHER -> <<>>]

\* The closure of the lane task: the entries it writes, from the entries
\* `temp` it read from lane k
LaneClosure(op, shape, k, temp) ==
    LET c == Ring(shape[op.dimension_no + 1])
    IN CASE op.kind = "OneDim" ->
               [i \in 1..Len(temp) |-> [c |-> CMul(c, temp[i].c, op.operator[i]),
                                        r |-> temp[i].r]]
         [] op.kind = "FFT" ->
               [i \in 1..Len(temp) |-> [c |-> CDot(c, op.matrices[1], temp)[i],
                                        r |-> temp[i].r + 1]]
         [] op.kind = "Matrix" ->
               [i \in 1..Len(temp) |-> [c |-> CDot(c, op.matrices[1], temp)[i],
                                        r |-> temp[i].r]]
         [] op.kind \in {"StateMatrix", "NonDiag"} ->
               IF k <= Len(op.matrices)
               THEN [i \in 1..Len(temp) |-> [c |-> CDot(c, op.matrices[k], temp)[i],
                                             r |-> temp[i].r]]
               ELSE temp

LaneKinds(shape, d) ==
    IF d < Len(shape) THEN {"OneDim", "FFT", "Matrix", "StateMatrix", "NonDiag"}
    ELSE {"OneDim", "FFT", "Matrix"}

LaneInit ==
    /\ \E shape \in {<<n, m>> : n \in 2..MaxNodes, m \in 2..MaxNodes} :
          \E d \in 1..2 : \E kind \in LaneKinds(shape, d) :
             /\ wave_function =
                   [shape |-> shape,
                    array |-> [x \in IndexTuples(shape) |->
                                  [c |-> <<RowMajorArray(shape)[x], 0>>, r |-> 0]],
                    possible_norm_change |-> TRUE]
             /\ operations = <<LaneOperator(kind, shape, d)>>
    /\ time_grid = [step_no |-> 0]
    /\ pc = "idle"
    /\ pos = 0
    /\ steps_done = 0
    /\ calls = <<>>
    /\ visits = <<>>
    /\ visit_no = 0
    /\ before = wave_function
    /\ last_call = [method |-> "new", arg |-> 0]

\* The operator is called: one task per lane is handed to the thread pool
StartLanes ==
    /\ pc = "idle"
    /\ steps_done < MaxLaneRuns
    /\ pc' = "lanes"
    /\ wave_function' = [wave_function EXCEPT !.possible_norm_change = TRUE]
    /\ before' = wave_function
    /\ visits' = [k \in 1..LanesNo(wave_function.shape, operations[1].dimension_no + 1)
                     |-> [state |-> "ready", temp |-> <<>>]]
    /\ last_call' = [method |-> "call", arg |-> steps_done]
    /\ UNCHANGED <<operations, time_grid, pos, steps_done, calls, visit_no>>

\* The task of lane k reads its lane
LaneRead ==
    /\ pc = "lanes"
    /\ \E k \in DOMAIN visits :
          /\ visits[k].state = "ready"
          /\ visits' = [visits EXCEPT ![k] =
                [state |-> "read",
                 temp |-> [i \in 1..wave_function.shape[operations[1].dimension_no + 1] |->
                             wave_function.array[
                                 LaneElement(wave_function.shape,
                                             operations[1].dimension_no + 1, k, i)]]]]
    /\ UNCHANGED <<wave_function, operations, time_grid, pc, pos, steps_done, calls,
                   visit_no, before, last_call>>

\* The task of lane k writes its lane
LaneWrite ==
    /\ pc = "lanes"
    /\ \E k \in DOMAIN visits :
          /\ visits[k].state = "read"
          /\ LET d == operations[1].dimension_no + 1
                 shape == wave_function.shape
                 result == LaneClosure(operations[1], shape, k, visits[k].temp)
             IN wave_function' = [wave_function EXCEPT !.array =
                    [x \in IndexTuples(shape) |->
                        IF x \in LaneElements(shape, d, k)
                        THEN result[x[d]] ELSE wave_function.array[x]]]
          /\ visits' = [visits EXCEPT ![k] = [state |-> "done", temp |-> <<>>]]
    /\ UNCHANGED <<operations, time_grid, pc, pos, steps_done, calls, visit_no, before,
                   last_call>>

\* Every task has finished: the operator returns
JoinLanes ==
    /\ pc = "lanes"
    /\ \A k \in DOMAIN visits : visits[k].state = "done"
    /\ pc' = "idle"
    /\ steps_done' = steps_done + 1
    /\ last_call' = [method |-> "return", arg |-> steps_done]
    /\ UNCHANGED <<wave_function, operations, time_grid, pos, calls, visits, visit_no,
                   before>>

LaneNext ==
    \/ StartLanes
    \/ LaneRead
    \/ LaneWrite
    \/ JoinLanes

LaneSpec == LaneInit /\ [][LaneNext]_vars

----------------------------------------------------------------------------
(* The savers.  StateSaver and WaveFunctionSaver keep a clone of the time  *)
(* grid, the frame counter current_frame, the data array with one column   *)
(* per frame and the recorded times.  A column is 0 (zeroed) or the number *)
(* of the monitor call that wrote it, which stands for the density then;   *)
(* a time is in units of time_grid.step.  propagate() monitors the saver   *)
(* once per step.                                                           *)

\* step_no and frames_no are at most this
MaxSaverSteps == 3

\* Calls of propagate()
MaxSaverRuns == 2

\* StateSaver::new, WaveFunctionSaver::new
SaverNew(kind, step_no, frames_no) ==
    [kind |-> kind,
     current_frame |-> 0,
     frames_no |-> frames_no,
     time_grid |-> [step_no |-> step_no],
     data_array |-> [j \in 1..frames_no |-> 0],
     times |-> <<>>]

\* Saver::reset: the data array is replaced by zeros
SaverReset(saver) == [saver EXCEPT !.data_array = [j \in 1..saver.frames_no |-> 0]]

\* let frequency = self.time_grid.step_no / self.frames_no
Frequency(saver) == saver.time_grid.step_no \div saver.frames_no

\* Saver::monitor.  ok is FALSE when the call panics: a WaveFunctionSaver on
\* an array that is not 2d ("ndim"), or a remainder by zero ("zero").
\* recorded tells whether this call wrote a frame.
SaverMonitor(saver, ndim) ==
    LET frequency == Frequency(saver)
        fail(why) == [ok |-> FALSE, panic |-> why, recorded |-> FALSE, saver |-> saver]
    IN IF saver.kind = "WaveFunctionSaver" /\ ndim # 2 THEN fail("ndim")
       ELSE IF frequency = 0 THEN fail("zero")
       ELSE IF saver.current_frame % frequency = 0
               /\ saver.current_frame \div frequency < saver.frames_no
       THEN [ok |-> TRUE, panic |-> "", recorded |-> TRUE,
             saver |-> [saver EXCEPT
                 !.data_array[(saver.current_frame \div frequency) + 1] =
                     saver.current_frame + 1,
                 !.times = Append(saver.times, saver.current_frame + 1),
                 !.current_frame = saver.current_frame + 1]]
       ELSE [ok |-> TRUE, panic |-> "", recorded |-> FALSE,
             saver |-> [saver EXCEPT !.current_frame = saver.current_frame + 1]]

\* calls is the list of the steps of the current propagate() at which the
\* saver recorded a frame, `before` the list of the first propagate()
SaverInit ==
    /\ \E kind \in {"StateSaver", "WaveFunctionSaver"} :
       \E step_no \in 1..MaxSaverSteps : \E frames_no \in 1..MaxSaverSteps :
          /\ operations = <<SaverNew(kind, step_no, frames_no)>>
          /\ time_grid = [step_no |-> step_no]
    /\ \E ndim \in 1..2 : wave_function = [ndim |-> ndim]
    /\ pc = "idle"
    /\ pos = 0
    /\ steps_done = 0
    /\ calls = <<>>
    /\ visits = <<>>
    /\ visit_no = 0
    /\ before = <<>>
    /\ last_call = [method |-> "new", arg |-> ""]

\* propagate() is entered
SaverPropagate ==
    /\ pc = "idle"
    /\ visit_no < MaxSaverRuns
    /\ pc' = "propagate"
    /\ steps_done' = 0
    /\ calls' = <<>>
    /\ last_call' = [method |-> "propagate", arg |-> ""]
    /\ UNCHANGED <<wave_function, operations, time_grid, pos, visits, visit_no, before>>

\* One step() of the loop: the saver is monitored
SaverStep ==
    /\ pc = "propagate"
    /\ steps_done < time_grid.step_no
    /\ LET r == SaverMonitor(operations[1], wave_function.ndim)
       IN /\ operations' = <<r.saver>>
          /\ pc' = IF r.ok THEN "propagate" ELSE "panicked"
          /\ calls' = IF r.recorded THEN Append(calls, steps_done) ELSE calls
          /\ last_call' = [method |-> "monitor", arg |-> r.panic]
    /\ steps_done' = steps_done + 1
    /\ UNCHANGED <<wave_function, time_grid, pos, visits, visit_no, before>>

\* The loop of propagate() has run step_no times
SaverPropagateReturn ==
    /\ pc = "propagate"
    /\ steps_done = time_grid.step_no
    /\ pc' = "idle"
    /\ visit_no' = visit_no + 1
    /\ before' = IF visit_no = 0 THEN calls ELSE before
    /\ last_call' = [method |-> "propagate_return", arg |-> ""]
    /\ UNCHANGED <<wave_function, operations, time_grid, pos, steps_done, calls, visits>>

\* Propagation::reset_savers_state: reset() of every saver of the stack
reset_savers_state ==
    /\ pc = "idle"
    /\ operations' = <<SaverReset(operations[1])>>
    /\ pos' = visit_no
    /\ last_call' = [method |-> "reset_savers_state", arg |-> ""]
    /\ UNCHANGED <<wave_function, time_grid, pc, steps_done, calls, visits, visit_no,
                   before>>

SaverNext ==
    \/ SaverPropagate
    \/ SaverStep
    \/ SaverPropagateReturn
    \/ reset_savers_state

SaverSpec == SaverInit /\ [][SaverNext]_vars

----------------------------------------------------------------------------
(* propagate() over a stack whose loss checkers were made by               *)
(* LossChecker::new_with_saver with the time grid of the propagation.      *)

\* frames_no of a loss saver is at most this
MaxLossFrames == 3

\* The elements that carry a loss checker
LossElements(lc) ==
    {NewPropagator(Mask, lc),
     NewLeakControl(FirstHalf + SecondHalf, lc),
     NewBorderDumping(FirstHalf + SecondHalf, Mask, lc)}

\* The loss saver of a stack element (NoLossSaver when it has none)
LossSaverOf(op) == op.loss_checked.loss_saver

\* A remainder by zero in LossSaver::monitor has aborted the program
LossSaverPanicked ==
    \E i \in 1..Len(operations) : LossSaverOf(operations[i]).panicked

LossInit ==
    /\ \E a \in InitArrays : wave_function = NewWaveFunction(a, <<SpaceGrid>>)
    /\ \E n \in 1..MaxStepNo : \E frames_no \in 1..MaxLossFrames :
          /\ time_grid = [step_no |-> n]
          /\ \E first \in LossElements(NewLossCheckerWithSaver(frames_no, n)) :
                \/ operations = <<first>>
                \/ \E second \in LossElements(NewLossCheckerWithSaver(frames_no, n)) :
                      operations = <<first, second>>
    /\ pc = "idle"
    /\ pos = 0
    /\ steps_done = 0
    /\ calls = <<>>
    /\ visits = <<>>
    /\ visit_no = 0
    /\ before = wave_function
    /\ last_call = [method |-> "new", arg |-> Real(0)]

\* step() goes on while no monitor has panicked
LossForwardVisit == ~LossSaverPanicked /\ ForwardVisit

LossReverseVisit == ~LossSaverPanicked /\ ReverseVisit

LossNext ==
    \/ propagate
    \/ LoopHead
    \/ LossForwardVisit
    \/ LossReverseVisit

LossSpec == LossInit /\ [][LossNext]_vars

----------------------------------------------------------------------------
(* BorderDumping with the mask of dumping_end.  The grid has the nodes     *)
(* 0, 1, .., n - 1 with weight 1, so r_max = n - 1.  The wave function is  *)
(* kept as its density |psi|^2 per node and a mask entry m as m^2: in the  *)
(* transition band (r_max - x) / mask_width is in [0, 1], where the sine   *)
(* is not negative, and for the widths of the model sin^2 is rational.     *)

\* Calls of first_half / second_half
MaxDumpCalls == 3

\* Numbers of nodes, and the values of mask_width and mask_end
DumpNodes == 2..4

MaskWidths == -1..3

RLe(x, y) == ~IsNaN(x) /\ ~IsNaN(y) /\ x[1] * y[2] <= y[1] * x[2]

\* cos(PI * t) for the rational t = k / w, a multiple of 1/2 or of 1/3
CosPi(k, w) ==
    LET t == Rat(k % (2 * w), w)
    IN CASE t = Rat(0, 1) -> Real(1)
         [] t \in {Rat(1, 3), Rat(5, 3)} -> Rat(1, 2)
         [] t \in {Rat(1, 2), Rat(3, 2)} -> Real(0)
         [] t \in {Rat(2, 3), Rat(4, 3)} -> Rat(-1, 2)
         [] t = Rat(1, 1) -> Real(-1)

\* The square of (PI / 2.0 * k / w).sin(); 0.0 / 0.0 is NaN
SinSquared(k, w) ==
    IF w = 0 THEN NaN
    ELSE RMul(Rat(1, 2), RSub(Real(1), CosPi(Rat(k, w)[1], Rat(k, w)[2])))

\* A mask without the interior branch: the sine at every node before the end
dumping_end_all_sine(mask_width, mask_end, nodes) ==
    LET r_max == nodes[Len(nodes)]
    IN [i \in 1..Len(nodes) |->
          IF nodes[i] > r_max - mask_end THEN Real(0)
          ELSE SinSquared(r_max - nodes[i], mask_width)]

\* dumping_end (the squares of its entries)
dumping_end(mask_width, mask_end, nodes) ==
    LET r_max == nodes[Len(nodes)]
    IN [i \in 1..Len(nodes) |->
          IF nodes[i] < r_max - mask_width THEN Real(1)
          ELSE IF nodes[i] > r_max - mask_end THEN Real(0)
          ELSE SinSquared(r_max - nodes[i], mask_width)]

RECURSIVE RSumTo(_, _)
RSumTo(f, k) == IF k = 0 THEN Real(0) ELSE RAdd(f[k], RSumTo(f, k - 1))

\* norm() of the density
DumpNorm(wf) == RSumTo(wf.density, Len(wf.density))

\* BorderDumping::first_half and second_half: check_before, the mask
\* applied, check_after
DumpHalf(op, wf) ==
    LET lc == [op.loss_checked EXCEPT !.current_norm = DumpNorm(wf)]
        new == [wf EXCEPT !.density = [i \in 1..Len(wf.density) |->
                                          RMul(wf.density[i], op.mask[i])]]
        new_norm == DumpNorm(new)
    IN [op |-> [op EXCEPT !.loss_checked =
                   [lc EXCEPT !.loss = RAdd(lc.loss, RSub(lc.current_norm, new_norm)),
                              !.current_norm = new_norm]],
        wf |-> new]

\* pos is mask_width and steps_done is mask_end, in grid units
DumpInit ==
    /\ \E n \in DumpNodes : \E mask_width \in MaskWidths : \E mask_end \in MaskWidths :
          /\ time_grid = [step_no |-> 0, nodes |-> [i \in 1..n |-> i - 1]]
          /\ pos = mask_width
          /\ steps_done = mask_end
          /\ operations =
                <<[kind |-> "Control", name |-> "BorderDumping",
                   mask |-> dumping_end(mask_width, mask_end, [i \in 1..n |-> i - 1]),
                   loss_checked |-> [some |-> TRUE, loss |-> Real(0),
                                     current_norm |-> Real(1)]]>>
          /\ \E d \in {[i \in 1..n |-> Real(1)], [i \in 1..n |-> Rat(i, 2)]} :
                wave_function = [density |-> d]
    /\ pc = "idle"
    /\ calls = <<>>
    /\ visits = <<>>
    /\ visit_no = 0
    /\ before = [norm |-> DumpNorm(wave_function), loss |-> Real(0)]
    /\ last_call = [method |-> "new", arg |-> 0]

DumpFirstHalf ==
    /\ visit_no < MaxDumpCalls
    /\ LET r == DumpHalf(operations[1], wave_function)
       IN /\ operations' = <<r.op>>
          /\ wave_function' = r.wf
    /\ before' = [norm |-> DumpNorm(wave_function),
                  loss |-> operations[1].loss_checked.loss]
    /\ visit_no' = visit_no + 1
    /\ last_call' = [method |-> "first_half", arg |-> visit_no]
    /\ UNCHANGED <<time_grid, pc, pos, steps_done, calls, visits>>

DumpSecondHalf ==
    /\ visit_no < MaxDumpCalls
    /\ LET r == DumpHalf(operations[1], wave_function)
       IN /\ operations' = <<r.op>>
          /\ wave_function' = r.wf
    /\ before' = [norm |-> DumpNorm(wave_function),
                  loss |-> operations[1].loss_checked.loss]
    /\ visit_no' = visit_no + 1
    /\ last_call' = [method |-> "second_half", arg |-> visit_no]
    /\ UNCHANGED <<time_grid, pc, pos, steps_done, calls, visits>>

DumpNext ==
    \/ DumpFirstHalf
    \/ DumpSecondHalf

DumpSpec == DumpInit /\ [][DumpNext]_vars

----------------------------------------------------------------------------
(* mean_energy() of a Propagation whose stack also holds transformations   *)
(* and savers.                                                              *)

\* The operations the stack is built from
StepOperations ==
    {NewPropagator(Mask, NewLossChecker),
     NewLeakControl(FirstHalf + SecondHalf, NewLossChecker),
     NewDiagonalization(MomentumGrid, TRUE),
     NewDiagonalization(SameNameGrid, FALSE),
     NewSaver(TRUE),
     NewSaver(FALSE)}

\* add_propagator, add_control, add_diagonalization and add_saver
AddStepOperation ==
    \E op \in StepOperations :
        /\ pc = "idle"
        /\ Len(operations) < MaxStack
        /\ operations' = Append(operations, op)
        /\ last_call' = [method |-> "add", arg |-> <<>>]
        /\ UNCHANGED <<wave_function, time_grid, pc, pos, steps_done, calls, visits,
                       visit_no, before>>

StepEnergyNext ==
    \/ AddStepOperation
    \/ mean_energy
    \/ ForwardVisit
    \/ ReverseVisit
    \/ mean_energy_return

StepEnergySpec == EnergyInit /\ [][StepEnergyNext]_vars

----------------------------------------------------------------------------
(* Claims about step() and propagate() *)

StackLen == Len(operations)

\* step() has returned at least once and no operation is running
StepEnded == pc \in {"loop", "done"} /\ steps_done > 0

Occurrences(seq, x) == Cardinality({k \in 1..Len(seq) : seq[k] = x})

\* The calls of the current step made on the operation at index i
CallsOn(i) == SelectSeq(calls, LAMBDA c : c.index = i)

Call(i, method, sweep) == [index |-> i, method |-> method, sweep |-> sweep]

SymmetricOrder(n) == [k \in 1..(2 * n - 1) |-> IF k <= n THEN k ELSE 2 * n - k]

\* C1: during a step the stack is visited in the order 1, .., n, n-1, .., 1
\* (forward sweep, then reverse sweep without the last element); when the step
\* has ended the last element was visited exactly once and every earlier
\* element exactly twice.  A visit is one step of the model: the operation
\* visited has returned before the next one starts.
C1_SymmetricSweep ==
    (pc # "idle" /\ StackLen >= 1) =>
        /\ Len(visits) <= 2 * StackLen - 1
        /\ visits = SubSeq(SymmetricOrder(StackLen), 1, Len(visits))
        /\ StepEnded =>
              /\ Len(visits) = 2 * StackLen - 1
              /\ Occurrences(visits, StackLen) = 1
              /\ \A i \in 1..(StackLen - 1) : Occurrences(visits, i) = 2

C1_Witness == StepEnded /\ StackLen = 3 /\ visits = <<1, 2, 3, 2, 1>>

Forward(op) == IF op.flag THEN "diagonalize" ELSE "inverse_diagonalize"

Backward(op) == IF op.flag THEN "inverse_diagonalize" ELSE "diagonalize"

\* The stack is [A, B, C]: A and C propagators, B a transformation
IsABC ==
    /\ StackLen = 3
    /\ operations[1].kind = "Propagator"
    /\ operations[2].kind = "Diagonalization"
    /\ operations[3].kind = "Propagator"

\* C2 as stated: one step of the stack [A, B, C] makes the calls A.apply,
\* B forward, C.apply, C.apply, B reverse, A.apply.
C2_Original ==
    (StepEnded /\ IsABC) =>
        calls = <<Call(1, "apply", "forward"),
                  Call(2, Forward(operations[2]), "forward"),
                  Call(3, "apply", "forward"),
                  Call(3, "apply", "reverse"),
                  Call(2, Backward(operations[2]), "reverse"),
                  Call(1, "apply", "reverse")>>

\* C2 (amended): one step of the stack [A, B, C] makes exactly the calls
\* A.apply, B forward, C.apply, B reverse, A.apply: C, the last element, is
\* applied once; the direction of B follows its order flag.
C2_StepOfABC ==
    (StepEnded /\ IsABC) =>
        calls = <<Call(1, "apply", "forward"),
                  Call(2, Forward(operations[2]), "forward"),
                  Call(3, "apply", "forward"),
                  Call(2, Backward(operations[2]), "reverse"),
                  Call(1, "apply", "reverse")>>

C2_Witness == StepEnded /\ IsABC /\ Len(calls) = 5 /\ steps_done = 2

\* Some transformation of the stack is not its last element
HasInnerTransformation ==
    \E i \in 1..(StackLen - 1) : operations[i].kind = "Diagonalization"

\* C3: a transformation is called in the direction of its order flag in the
\* forward sweep and in the opposite direction in the reverse sweep; one that
\* is not the last element is called exactly twice per step, once in each
\* direction, and after every completed step the wave function holds the
\* grid it held before the first step.
C3_TransformationDirections ==
    /\ \A k \in 1..Len(calls) :
          operations[calls[k].index].kind = "Diagonalization" =>
              calls[k].method = IF calls[k].sweep = "forward"
                                THEN Forward(operations[calls[k].index])
                                ELSE Backward(operations[calls[k].index])
    /\ StepEnded =>
          /\ \A i \in 1..(StackLen - 1) :
                operations[i].kind = "Diagonalization" =>
                    CallsOn(i) = <<Call(i, Forward(operations[i]), "forward"),
                                   Call(i, Backward(operations[i]), "reverse")>>
          /\ HasInnerTransformation => wave_function.grids = before.grids

C3_Witness ==
    /\ StepEnded
    /\ steps_done = 2
    /\ \E i \in 1..(StackLen - 1) :
          /\ operations[i].kind = "Diagonalization"
          /\ ~operations[i].flag
          /\ Len(CallsOn(i)) = 2
    /\ operations[StackLen].kind = "Diagonalization"

\* Visits of one step
VisitsPerStep == IF StackLen = 0 THEN 0 ELSE 2 * StackLen - 1

\* What propagate() still has to do: the steps left, each one entry of the
\* loop head and its visits, the visits left of the running step, and the
\* exit of the loop
Remaining ==
    CASE pc = "loop" -> (time_grid.step_no - steps_done) * (VisitsPerStep + 1) + 1
      [] pc = "step" -> (time_grid.step_no - steps_done) * (VisitsPerStep + 1)
                         - Len(visits)
      [] OTHER -> 0

Eq(x, y) == ~IsNaN(x) /\ ~IsNaN(y) /\ x = y

IsLeakControlOnBothHalves(op) ==
    op.kind = "Control" /\ op.name = "LeakControl" /\ op.config = FirstHalf + SecondHalf

\* C5 as stated: with a LeakControl applied on both halves anywhere in the
\* stack, norm() at the end of a step is the norm its first_half recorded.
C5_Original ==
    StepEnded =>
        \A i \in 1..StackLen :
            IsLeakControlOnBothHalves(operations[i]) =>
                Eq(norm(wave_function).value, operations[i].norm)

\* C5 (amended): with a LeakControl applied on both halves as the first
\* element of the stack, norm() at the end of every step is the norm its
\* first_half recorded in that step, whatever runs in between, and it is the
\* norm() of the wave function before the first step.
C5_LeakControlFirst ==
    (StepEnded /\ StackLen >= 1 /\ IsLeakControlOnBothHalves(operations[1])) =>
        /\ Eq(norm(wave_function).value, operations[1].norm)
        /\ Eq(norm(wave_function).value, norm(before).value)

C5_Witness ==
    /\ StepEnded
    /\ steps_done = 2
    /\ StackLen = 3
    /\ IsLeakControlOnBothHalves(operations[1])
    /\ operations[1].loss_checked.loss # Real(0)
    /\ operations[2].kind = "Diagonalization"
    /\ wave_function.array # before.array

HasFlag(op, flag) == (op.config \div flag) % 2 = 1

\* The calls a control gets in one step when it is called on the halves given
ControlCalls(i, first, second) ==
    (IF first THEN <<Call(i, "first_half", "forward")>> ELSE <<>>)
        \o (IF second THEN <<Call(i, "second_half", "reverse")>> ELSE <<>>)

\* C6 as stated: in every step every control gets first_half exactly once, in
\* the forward sweep, iff its mask includes FirstHalf and second_half exactly
\* once, in the reverse sweep, iff its mask includes SecondHalf.
C6_Original ==
    StepEnded =>
        \A i \in 1..StackLen :
            operations[i].kind = "Control" =>
                CallsOn(i) = ControlCalls(i, HasFlag(operations[i], FirstHalf),
                                          HasFlag(operations[i], SecondHalf))

\* C6 (amended): in every step every control gets first_half exactly once,
\* in the forward sweep, iff its mask includes FirstHalf, and second_half
\* exactly once, in the reverse sweep and after first_half, iff its mask
\* includes SecondHalf and it is not the last element of the stack; the last
\* element never gets second_half, and a control with mask None gets no call.
C6_ControlCalls ==
    StepEnded =>
        \A i \in 1..StackLen :
            operations[i].kind = "Control" =>
                CallsOn(i) = ControlCalls(i, HasFlag(operations[i], FirstHalf),
                                          HasFlag(operations[i], SecondHalf)
                                              /\ i < StackLen)

C6_Witness ==
    /\ StepEnded
    /\ StackLen = 3
    /\ operations[1].kind = "Control" /\ operations[1].config = FirstHalf + SecondHalf
    /\ Len(CallsOn(1)) = 2
    /\ operations[2].kind = "Control" /\ operations[2].config = ApplyNone
    /\ operations[3].kind = "Control" /\ operations[3].config = SecondHalf
    /\ CallsOn(3) = <<>>

\* C7 as stated: every saver is monitored exactly once per step, in the
\* forward sweep if it was added for the first half and in the reverse sweep
\* if not, whatever its position.
C7_Original ==
    StepEnded =>
        \A i \in 1..StackLen :
            operations[i].kind = "Saver" =>
                CallsOn(i) = <<Call(i, "monitor",
                                    IF operations[i].flag THEN "forward" ELSE "reverse")>>

\* C7 (amended): in every step a first-half saver is monitored exactly once,
\* in the forward sweep, whatever its position; a second-half saver that is
\* not the last element is monitored exactly once, in the reverse sweep; a
\* second-half saver that is the last element is not monitored at all.
C7_SaverCalls ==
    StepEnded =>
        \A i \in 1..StackLen :
            operations[i].kind = "Saver" =>
                CallsOn(i) = IF operations[i].flag
                             THEN <<Call(i, "monitor", "forward")>>
                             ELSE IF i < StackLen
                                  THEN <<Call(i, "monitor", "reverse")>>
                                  ELSE <<>>

C7_Witness ==
    /\ StepEnded
    /\ StackLen = 3
    /\ operations[1].kind = "Saver" /\ ~operations[1].flag
    /\ operations[1].current_frame = 2
    /\ operations[2].kind = "Saver" /\ operations[2].flag
    /\ operations[3].kind = "Saver" /\ ~operations[3].flag
    /\ operations[3].current_frame = 0

----------------------------------------------------------------------------
(* Claims about the norm cache of the wave function *)

\* The sum norm() is to return: |array|^2 weighted by the grids now held
TrueNorm(wf) == WeightedSum(wf.array, WeightAmplitudeArray(wf.grids))

\* C8 as stated: after any sequence of calls, norm() returns the weighted sum
\* of the current array under the weights of the current grids, and the flag
\* possible_norm_change is false only when last_norm is that sum.
C8_Original ==
    pc = "caller" =>
        /\ norm(wave_function).value = TrueNorm(wave_function)
        /\ ~wave_function.possible_norm_change =>
              wave_function.last_norm = TrueNorm(wave_function)

\* C9 as stated: every transformation call sets possible_norm_change, and the
\* weights norm() then uses are those of the grids the wave function holds,
\* whatever the grids are named.
C9_Original ==
    (pc = "caller" /\ last_call.method \in {"diagonalize", "inverse_diagonalize"}) =>
        /\ wave_function.possible_norm_change
        /\ norm(wave_function).wf.weight_amplitude_array
              = WeightAmplitudeArray(wave_function.grids)

----------------------------------------------------------------------------
(* Claims about the transformations and about wave functions of any rank *)

\* The last two calls were the two directions of the transformation at one
\* index, in either order, and both returned
RoundTrip ==
    /\ pc = "tensor"
    /\ Len(calls) = 2
    /\ calls[1].index = calls[2].index
    /\ \/ calls[1].method = "transform" /\ calls[2].method = "inverse_transform"
       \/ calls[1].method = "inverse_transform" /\ calls[2].method = "transform"

\* C11 as stated: for every transformation, transform followed by
\* inverse_transform (and the reverse order) restores the array element for
\* element and the grid of the axis, and leaves the replacement grid in the
\* transformation.
C11_Original ==
    RoundTrip =>
        /\ wave_function.array = visits[1].wf.array
        /\ wave_function.grids = visits[1].wf.grids
        /\ operations[calls[2].index].grid_transformation
              = visits[1].ops[calls[2].index].grid_transformation

\* The last call was a transform or inverse_transform of the FFT
AfterFFT ==
    /\ pc = "tensor"
    /\ last_call.method \in {"transform", "inverse_transform"}
    /\ operations[last_call.arg[1]].kind = "FFT"

\* C12 as stated: norm() asked before an FFT transform, after it and after
\* the inverse transform gives the same value: a norm() right after a call of
\* the FFT returns, and returns what a norm() right before the call returned.
C12_Original ==
    AfterFFT =>
        /\ norm_nd(wave_function).ok
        /\ norm_nd(wave_function).value = norm_nd(before).value

\* C13 as stated: in every reachable state every axis k has
\* grids[k].nodes_no = array.shape[k] and grids[k].dimension_no = k; the grid
\* an FFT builds for an axis of D nodes has D nodes and D weights.
C13_Original ==
    /\ \A k \in 1..Rank(wave_function.shape) :
          /\ wave_function.grids[k].nodes_no = wave_function.shape[k]
          /\ wave_function.grids[k].dimension_no = k - 1
    /\ \A i \in DOMAIN operations :
          operations[i].kind = "FFT" =>
              LET held == IF operations[i].grid_transformation.name = "x_fft"
                          THEN operations[i].grid_transformation
                          ELSE wave_function.grids[1]
              IN /\ Len(held.nodes) = wave_function.shape[1]
                 /\ Len(held.weights) = wave_function.shape[1]

RECURSIVE WeightProduct(_, _, _)
\* The product of grids[k].weights[x[k]] over the first k axes
WeightProduct(grids, x, k) ==
    IF k = 0 THEN Real(1)
    ELSE RMul(grids[k].weights[x[k]], WeightProduct(grids, x, k - 1))

\* The cache was built by the last call: by WaveFunction::new, or by norm()
\* or state_density(), which rebuild it when a grid has changed
CacheBuilt ==
    /\ pc = "tensor"
    /\ last_call.method \in {"new", "norm", "state_density"}

\* C18: right after construction and after every rebuild the squared modulus
\* of weight_amplitude_array at every index tuple is the product over the
\* axes k of grids[k].weights[i_k] (with the power of pi of these grids), for
\* rank 1 and rank 2.
C18_WeightAmplitudeArray ==
    CacheBuilt =>
        /\ DOMAIN wave_function.weight_amplitude_array = Indices(wave_function.shape)
        /\ \A x \in Indices(wave_function.shape) :
              wave_function.weight_amplitude_array[x]
                  = WeightProduct(wave_function.grids, x, Rank(wave_function.shape))
        /\ wave_function.weight_unit
              = UnitSum(wave_function.grids, Rank(wave_function.shape))

\* The cache of a rank 2 wave function was rebuilt by norm() after an FFT of
\* the first axis put the momentum grid there
C18_Witness ==
    /\ CacheBuilt
    /\ last_call.method = "norm"
    /\ Rank(wave_function.shape) = 2
    /\ wave_function.shape[2] = 3
    /\ wave_function.grids[1].name = "x_fft"
    /\ before.last_grid_names # wave_function.last_grid_names

AfterStateDensity ==
    /\ pc = "tensor"
    /\ last_call.method = "state_density"

\* C19 as stated: state_density(axis) has length shape[axis], its entry j is
\* the sum over the indices with axis index j of |array|^2 *
\* |weight_amplitude_array|^2, and the entries sum to norm(), for rank 1 as
\* well as for rank 2.
C19_Original ==
    AfterStateDensity =>
        LET axis == last_call.arg[1]
            value == calls[Len(calls)].value
            wf == wave_function
            d == density(wf)
        IN /\ DOMAIN value = 1..wf.shape[axis]
           /\ \A j \in 1..wf.shape[axis] :
                 value[j] = PiValue(RSumSet([x \in Indices(wf.shape) |->
                                                RMul(d[x], wf.weight_amplitude_array[x])],
                                            {x \in Indices(wf.shape) : x[axis] = j}),
                                    wf.weight_unit)
           /\ PiValue(RSumSet([j \in DOMAIN value |-> value[j].q], DOMAIN value),
                      wf.weight_unit)
                 = norm_nd(wf).value

\* The last call was transform (forward) or inverse_transform of a per-state
\* matrix transformation
AfterStateMatrix(method) ==
    /\ pc = "tensor"
    /\ last_call.method = method
    /\ operations[last_call.arg[1]].kind = "StateMatrix"

\* The array in which the lane along axis d through every index of the
\* slices 1..slices_no of axis e is matrices[j] * lane, j the index on e
SlicesTransformed(op, wf, matrices, slices_no) ==
    LET c == Ring(wf.shape[1])
        d == op.dimension_no + 1
        e == op.dimension_no_dependent + 1
        v == wf.array.v
    IN TCanon([x \in DOMAIN v |->
                  IF x[e] <= slices_no
                  THEN CSumSeq([m \in 1..wf.shape[d] |->
                                   CMul(c, matrices[x[e]][x[d]][m], v[[x EXCEPT ![d] = m]])],
                               wf.shape[d])
                  ELSE v[x]],
              wf.array.s)

\* The per-state transformation was given one matrix per index of axis e
OneMatrixPerSlice(op, wf) ==
    /\ Len(op.transformations) = wf.shape[op.dimension_no_dependent + 1]
    /\ Len(op.inverse_transformations) = wf.shape[op.dimension_no_dependent + 1]

Min(a, b) == IF a <= b THEN a ELSE b

----------------------------------------------------------------------------
(* Claims about the loss checker *)

\* The call that has just returned was `method` of the object at index i
JustCalled(method, i) ==
    /\ last_call'.method = method
    /\ last_call'.arg = Real(i)

\* C16: an apply of a loss-checked propagator adds to the cumulative loss of
\* its checker exactly (what norm() returns just before the multiply) minus
\* (the weighted sum of the multiplied array, computed after the multiply),
\* and leaves that sum as current_norm and in the cache; loss_reset sets the
\* cumulative loss to 0; no other call changes it.  So the loss is the sum of
\* these differences since the last reset.
C16_LossAccounting ==
    [][\A i \in DOMAIN operations :
          (operations[i].kind = "Propagator" /\ operations[i].loss_checked.some) =>
              LET lc == operations[i].loss_checked
                  after == operations'[i].loss_checked
                  recomputed == WeightedSum(wave_function'.array,
                                            wave_function'.weight_amplitude_array)
              IN IF JustCalled("apply", i)
                 THEN /\ wave_function'.array
                            = MulLane(wave_function.array, operations[i].operator)
                      /\ after.loss
                            = RAdd(lc.loss, RSub(norm(wave_function).value, recomputed))
                      /\ after.current_norm = recomputed
                      /\ norm(wave_function').value = recomputed
                 ELSE IF JustCalled("loss_reset", i)
                 THEN after.loss = Real(0)
                 ELSE after.loss = lc.loss]_vars

\* The loss-checked propagator was applied to a wave function whose norm was
\* in the cache, the multiply took norm away, and the loss holds more than
\* this last difference
C16_Witness ==
    /\ pc = "caller"
    /\ last_call = [method |-> "apply", arg |-> Real(1)]
    /\ ~before.possible_norm_change
    /\ ~IsNaN(operations[1].loss_checked.loss)
    /\ LET last == RSub(norm(before).value, norm(wave_function).value)
       IN /\ last[1] > 0
          /\ RSub(operations[1].loss_checked.loss, last)[1] > 0

----------------------------------------------------------------------------
(* Claims about mean_energy() and get_losses() *)

ImTime == time_grid.im_time

\* mean_energy() is entered by this step
EntersMeanEnergy == pc = "idle" /\ last_call'.method = "mean_energy"

\* mean_energy() returns by this step
LeavesMeanEnergy == pc = "loop" /\ pc' = "idle"

\* C14: in imaginary time mean_energy() aborts when the stack is empty or
\* its first element is not a control, not named LeakControl or has no loss
\* checker, and then no operation has been called and the wave function and
\* the stack are as before the call.  Otherwise it sets the loss of the
\* first element's checker to 0 and changes nothing else, runs one step
\* (the visits between entry and return are those of one step), and the
\* decay it uses is the loss of that checker at the end of the step: during
\* the step that loss changes only by the check_after of the first element's
\* second_half, which adds the norm taken at its first_half minus the norm
\* it finds.
C14_MeanEnergy ==
    [][/\ (EntersMeanEnergy /\ ImTime) =>
             IF /\ Len(operations) >= 1
                /\ operations[1].kind = "Control"
                /\ operations[1].name = "LeakControl"
                /\ operations[1].loss_checked.some
             THEN /\ pc' # "aborted"
                  /\ operations'[1].loss_checked.loss = Real(0)
                  /\ operations'[1].loss_checked.current_norm
                        = operations[1].loss_checked.current_norm
                  /\ \A i \in 2..Len(operations) : operations'[i] = operations[i]
                  /\ Len(operations') = Len(operations)
                  /\ wave_function' = wave_function
                  /\ visits' = <<>>
             ELSE /\ pc' = "aborted"
                  /\ wave_function' = wave_function
                  /\ operations' = operations
                  /\ visits' = <<>>
                  /\ calls' = <<>>
       /\ (pc = "step" /\ ImTime) =>
             LET n == Len(operations)
                 lc == operations[1].loss_checked
                 after == operations'[1].loss_checked
                 found == norm(wave_function).value
             IN IF pos = 1
                THEN after = [lc EXCEPT !.current_norm = found]
                ELSE IF pos = 2 * n - 1
                THEN after = [lc EXCEPT !.loss = RAdd(lc.loss, RSub(lc.current_norm, found)),
                                        !.current_norm = found]
                ELSE after = lc
       /\ (LeavesMeanEnergy /\ ImTime) =>
             /\ visits = StepOrder(Len(operations))
             /\ last_call'.arg.decay = operations[1].loss_checked.loss
             /\ operations' = operations
      ]_vars

\* The second mean_energy() in imaginary time has returned: the step before
\* it lost norm (the loss-checked propagator behind the LeakControl holds
\* that loss), this step lost none, and the decay is 0
C14_Witness ==
    /\ pc = "idle"
    /\ ImTime
    /\ last_call.method = "mean_energy_return"
    /\ steps_done = 2
    /\ Len(operations) >= 2
    /\ operations[2].kind = "Propagator"
    /\ operations[2].loss_checked.some
    /\ operations[2].loss_checked.loss[1] > 0
    /\ last_call.arg.decay = Real(0)
    /\ Len(visits) = 2 * Len(operations) - 1

\* The losses of the elements of the stack that satisfy Reported, in stack
\* order
LossesOf(Reported(_)) ==
    LET checked == SelectSeq(operations, Reported)
    IN [k \in 1..Len(checked) |-> checked[k].loss_checked.loss]

AfterGetLosses == pc = "idle" /\ last_call.method = "get_losses"

\* C15 as stated: get_losses() returns the loss of every loss checker of the
\* stack, those of propagators and those of controls, in stack order.
C15_Original ==
    AfterGetLosses =>
        last_call.arg = LossesOf(LAMBDA op : op.loss_checked.some)

\* C15 (amended): get_losses() returns one entry per propagator that has a
\* loss checker, in stack order, each the cumulative loss of that checker
\* at the time of the call; the loss checkers of controls are not reported.
C15_GetLosses ==
    AfterGetLosses =>
        last_call.arg
            = LossesOf(LAMBDA op : op.kind = "Propagator" /\ op.loss_checked.some)

\* get_losses() returned two different losses for a stack that holds a
\* loss-checked control between two loss-checked propagators
C15_Witness ==
    /\ AfterGetLosses
    /\ Len(operations) = 3
    /\ operations[2].kind = "Control"
    /\ operations[2].loss_checked.some
    /\ Len(last_call.arg) = 2
    /\ last_call.arg[1] # last_call.arg[2]

----------------------------------------------------------------------------
(* Claims about the operators of a propagator *)

AxisLength == wave_function.grids[1].nodes_no

\* C17 as stated: set_operator and add_operator abort whenever the length
\* of the operator differs from the length of the axis of the wave function
\* (they return only for operators of that length) and leave the stored
\* operator unchanged when they abort; apply never runs to completion with
\* an operator whose length differs from the length of the lane.
C17_Original ==
    /\ (pc = "propagator" /\ last_call.method \in {"set_operator", "add_operator"}) =>
          Len(last_call.arg) = AxisLength
    /\ (pc = "aborted" /\ last_call.method \in {"set_operator", "add_operator"}) =>
          operations[1].operator = visits[1]
    /\ (pc = "propagator" /\ last_call.method = "apply") =>
          Len(operations[1].operator) = AxisLength

\* The propagator was given a with set_operator and then b with add_operator
Fused(k) ==
    /\ k >= 1
    /\ Len(calls) >= k + 1
    /\ calls[k].method = "set_operator"
    /\ calls[k + 1].method = "add_operator"
    /\ Len(calls[k].arg) = Len(operations[1].operator)
    /\ Len(calls[k + 1].arg) = Len(operations[1].operator)

\* apply of a propagator whose operator is `operator`
Applied(array, operator) == LaneMul(array, operator).array

\* C24: after set_operator(a) and add_operator(b) the propagator holds the
\* operator it holds after set_operator(b) and add_operator(a), and its
\* apply changes the array as a propagator with operator a followed by a
\* propagator with operator b does, and as b followed by a does: checked on
\* the array of every wave function reached, and on the apply that follows.
C24_AddOperatorComposes ==
    /\ (pc = "propagator" /\ Fused(Len(calls) - 1)) =>
          LET a == calls[Len(calls) - 1].arg
              b == calls[Len(calls)].arg
          IN /\ operations[1].operator = MulOperator(b, a)
             /\ Applied(wave_function.array, operations[1].operator)
                   = Applied(Applied(wave_function.array, a), b)
             /\ Applied(wave_function.array, operations[1].operator)
                   = Applied(Applied(wave_function.array, b), a)
    /\ (pc = "propagator" /\ Len(calls) = 3 /\ Fused(1) /\ last_call.method = "apply") =>
          wave_function.array = Applied(Applied(before.array, calls[1].arg), calls[2].arg)

\* A mask was set, a sign flip was multiplied in, and the propagator was
\* applied to an array it changes
C24_Witness ==
    /\ pc = "propagator"
    /\ Len(calls) = 3
    /\ Fused(1)
    /\ last_call.method = "apply"
    /\ Len(operations[1].operator) = AxisLength
    /\ calls[1].arg # calls[2].arg
    /\ wave_function.array # before.array
    /\ wave_function.array.s # Real(0)

----------------------------------------------------------------------------
(* Claims about the block-per-state propagator *)

\* apply has returned for a propagator that holds the matrices of axis e
AfterBlockApply ==
    /\ pc = "block"
    /\ last_call.method = "apply"
    /\ last_call.arg > 0

\* C21 as stated: after apply of the block-per-state propagator of axis d
\* conditioned by axis e > d, every lane along d is matrix[j] * (the lane
\* before), j being the index of the lane's slice on axis e, for rank 2 and
\* for rank 3.
C21_Original ==
    AfterBlockApply =>
        LET d == operations[1].dimension_no + 1
            e == last_call.arg
        IN \A x \in IndexTuples(wave_function.shape) :
              wave_function.array[x]
                  = SumTo([m \in 1..wave_function.shape[d] |->
                              operations[1].operators[x[e]][x[d]][m]
                                  * before.array[[x EXCEPT ![d] = m]]],
                          wave_function.shape[d])

----------------------------------------------------------------------------
(* Claims about the lane tasks *)

\* The array the operator gives when the lanes are processed one after the
\* other, in their order
RECURSIVE Sequentially(_, _, _)
Sequentially(op, wf, k) ==
    IF k = 0 THEN wf.array
    ELSE LET d == op.dimension_no + 1
             array == Sequentially(op, wf, k - 1)
             lane == [i \in 1..wf.shape[d] |-> array[LaneElement(wf.shape, d, k, i)]]
             result == LaneClosure(op, wf.shape, k, lane)
         IN [x \in IndexTuples(wf.shape) |->
                IF LaneNo(wf.shape, d, x) = k THEN result[x[d]] ELSE array[x]]

\* C22: the lane tasks of an operator write pairwise disjoint sets of
\* elements that together are the whole array, a task that has read holds
\* the entries its lane had when the operator was called, whatever the
\* other tasks have done, a lane no task has written yet is unchanged, and
\* when the operator returns the array is the one obtained by processing
\* the lanes sequentially: the same for every interleaving.
C22_LanesAreIndependent ==
    LET op == operations[1]
        d == op.dimension_no + 1
        shape == wave_function.shape
        lanes == 1..LanesNo(shape, d)
    IN /\ \A k \in lanes : \A l \in lanes :
             k # l => LaneElements(shape, d, k) \cap LaneElements(shape, d, l) = {}
       /\ UNION {LaneElements(shape, d, k) : k \in lanes} = IndexTuples(shape)
       /\ pc = "lanes" =>
             \A k \in lanes :
                /\ visits[k].state = "read" =>
                      visits[k].temp = [i \in 1..shape[d] |->
                                           before.array[LaneElement(shape, d, k, i)]]
                /\ visits[k].state # "done" =>
                      \A x \in LaneElements(shape, d, k) :
                         wave_function.array[x] = before.array[x]
       /\ (pc = "idle" /\ last_call.method = "return") =>
             wave_function.array = Sequentially(op, before, LanesNo(shape, d))

\* The second run of a per-state matrix transformation over three lanes has
\* returned
C22_Witness ==
    /\ pc = "idle"
    /\ last_call.method = "return"
    /\ steps_done = 2
    /\ operations[1].kind = "StateMatrix"
    /\ Len(visits) = 3
    /\ wave_function.array # before.array

----------------------------------------------------------------------------
(* Claims about the savers *)

\* C23 as stated: after reset_savers_state() the saver is in the state it
\* had when constructed, and a propagate() that follows a reset records its
\* frames at the same steps as the first propagate() did.
C23_Original ==
    /\ last_call.method = "reset_savers_state" =>
          operations[1] = SaverNew(operations[1].kind, time_grid.step_no,
                                   operations[1].frames_no)
    /\ (last_call.method = "propagate_return" /\ visit_no = 2 /\ pos = 1) =>
          calls = before

\* The calls of monitor, counted from 0, at which a saver with this
\* frequency records
RecordingCalls(frames_no, f) == {j * f : j \in 0..(frames_no - 1)}

\* C29 as stated: monitor never fails with a division by zero, no frame
\* index at or beyond frames_no is written, and a first propagate() records
\* exactly frames_no frames, at the monitor calls 0, f, 2f, ...
C29_Original ==
    LET saver == operations[1]
    IN /\ ~(pc = "panicked" /\ last_call.arg = "zero")
       /\ DOMAIN saver.data_array = 1..saver.frames_no
       /\ (last_call.method = "propagate_return" /\ visit_no = 1) =>
             /\ Len(calls) = saver.frames_no
             /\ {calls[i] : i \in 1..Len(calls)} =
                   RecordingCalls(saver.frames_no,
                                  time_grid.step_no \div saver.frames_no)

----------------------------------------------------------------------------
(* Claims about the loss savers *)

\* C26 as stated: the loss saver of every loss checker is monitored exactly
\* twice per step, so after k steps it has counted 2k calls, it never fails,
\* and when propagate() has run its step_no steps it holds exactly frames_no
\* samples.
C26_Original ==
    \A i \in 1..Len(operations) :
       LET ls == LossSaverOf(operations[i])
       IN ls.some =>
             /\ ~ls.panicked
             /\ pc \in {"loop", "done"} => ls.current_frame = 2 * steps_done
             /\ pc = "done" => /\ Len(ls.losses) = ls.frames_no
                               /\ Len(ls.times) = ls.frames_no

----------------------------------------------------------------------------
(* Claims about BorderDumping *)

\* An application of the mask has just been made
AfterDump == last_call.method \in {"first_half", "second_half"}

\* The norm is not larger and the cumulative loss not smaller than before
\* the last application
NormAndLossMonotone ==
    AfterDump =>
        /\ RLe(DumpNorm(wave_function), before.norm)
        /\ RLe(before.loss, operations[1].loss_checked.loss)

----------------------------------------------------------------------------
(* Claims about the grid an operation of the stack meets *)

\* The indices of the transformations of the stack
TransformationIndices ==
    {i \in 1..Len(operations) : operations[i].kind = "Diagonalization"}

\* step() is about to visit an operation of a stack with one
\* transformation, which is not the last element
BeforeVisitWithOneTransformation ==
    /\ pc = "step"
    /\ Cardinality(TransformationIndices) = 1
    /\ \A i \in TransformationIndices : i < Len(operations)

\* C25 as stated: in a stack with a transformation at an index i that is
\* not the last, an operation at an index above i is visited, in both
\* sweeps, while the wave function holds the replacement grid, an operation
\* at an index below i while it holds the original grid, and a norm query
\* made at the visit uses the weights of the grid then held.
C25_Original ==
    BeforeVisitWithOneTransformation =>
        LET i == CHOOSE t \in TransformationIndices : TRUE
            j == StepOrder(Len(operations))[pos]
        IN /\ j > i => /\ wave_function.grids[1] \in ReplacementGrids
                       /\ operations[i].grid_transformation = SpaceGrid
           /\ j < i => /\ wave_function.grids[1] = SpaceGrid
                       /\ operations[i].grid_transformation \in ReplacementGrids
           /\ norm(wave_function).wf.weight_amplitude_array
                 = WeightAmplitudeArray(wave_function.grids)

----------------------------------------------------------------------------
(* Claims about mean_energy() on stacks with transformations and savers *)

\* step() has returned inside a mean_energy() in real time: dot() is next
BeforeDot == pc = "loop" /\ ~time_grid.im_time

\* C28 as stated: in real time mean_energy() never aborts; whatever the
\* stack, the weight_amplitude_array of the wave function cloned before the
\* step and of the one cloned after it are equal when dot() compares them.
C28_Original ==
    /\ ~(pc = "aborted" /\ ~time_grid.im_time)
    /\ BeforeDot => DotAssertion(wave_function, before)

\* What identifies an element of the stack: its variant and what it was
\* constructed with
StackContents(ops) ==
    [i \in 1..Len(ops) |->
        [kind |-> ops[i].kind, name |-> ops[i].name, flag |-> ops[i].flag,
         config |-> ops[i].config, operator |-> ops[i].operator]]

\* The stacks and wave functions the first k visits of one step() over ops
\* can leave (a saver records a frame at a visit or does not)
RECURSIVE AfterVisits(_, _, _)
AfterVisits(ops, wf, k) ==
    IF k = 0 THEN {[ops |-> ops, wf |-> wf]}
    ELSE LET n == Len(ops)
             i == (ForwardOrder(n) \o ReverseOrder(n))[k]
             visit(s, records) ==
                 LET c == IF k <= n THEN ForwardCall(s.ops[i], s.wf, records)
                          ELSE ReverseCall(s.ops[i], s.wf, records)
                 IN [ops |-> [s.ops EXCEPT ![i] = c.r.op], wf |-> c.r.wf]
         IN {visit(s, records) : s \in AfterVisits(ops, wf, k - 1), records \in BOOLEAN}

\* How often a saver at index i of a stack of n elements is monitored in
\* one step
MonitorsPerStep(op, i, n) == IF op.flag \/ i < n THEN 1 ELSE 0

\* The calls of monitor on index i during the current step
MonitorCalls(i) ==
    Cardinality({k \in 1..Len(calls) :
                    calls[k].index = i /\ calls[k].method = "monitor"})

\* One transition of a mean_energy() call
C30_Transition ==
    /\ time_grid' = time_grid
    /\ (pc # "idle" \/ pc' # "idle") =>
          StackContents(operations') = StackContents(operations)
    /\ (pc = "idle" /\ pc' \in {"step", "loop"}) =>
          /\ before' = wave_function
          /\ wave_function' = wave_function
    /\ (pc = "step") =>
          LET n == Len(operations)
              i == (ForwardOrder(n) \o ReverseOrder(n))[pos]
              op == operations[i]
              was == op.loss_checked
              now == operations'[i].loss_checked
          IN /\ \A j \in 1..n : j # i => operations'[j] = operations[j]
             /\ (op.kind = "Saver" /\ Len(calls') > Len(calls)) =>
                   operations'[i].current_frame = op.current_frame + 1
             /\ (op.kind = "Propagator" /\ was.some) =>
                   now.loss = RAdd(was.loss, RSub(norm(wave_function).value,
                                                  norm(wave_function').value))
             /\ (op.kind = "Control" /\ was.some /\ pos > n) =>
                   now.loss = RAdd(was.loss, RSub(was.current_norm,
                                                  norm(wave_function).value))
    /\ (pc = "loop") =>
          LET n == Len(operations)
          IN /\ visits = ForwardOrder(n) \o ReverseOrder(n)
             /\ [ops |-> operations, wf |-> wave_function]
                   \in AfterVisits(last_call.arg, before, Len(visits))
             /\ wave_function'.array = wave_function.array
             /\ wave_function'.grids = wave_function.grids
             /\ \A i \in 1..n :
                   operations[i].kind = "Saver" =>
                      MonitorCalls(i) = MonitorsPerStep(operations[i], i, n)
             /\ operations' = operations

\* C30: a call of mean_energy() that passes its entry checks, in real and
\* in imaginary time, runs exactly one step() on the wave function and the
\* stack of the propagation: the two sweeps visit the elements once in
\* order, the array the call leaves is the array at entry advanced by that
\* step, every saver the step schedules is monitored once and its frame
\* counter grows by one, every loss checker adds the loss of its visit, and
\* the time grid, the elements of the stack and their order do not change.
C30_MeanEnergyIsAStep == [][C30_Transition]_vars

\* Two calls in real time on the stack [saver, mask propagator with loss
\* checker, leak control] have returned: the saver has been monitored
\* twice, the propagator holds a loss and the array has changed
C30_Witness ==
    /\ pc = "idle"
    /\ last_call.method = "mean_energy_return"
    /\ ~time_grid.im_time
    /\ steps_done = 2
    /\ Len(operations) = 3
    /\ operations[1].kind = "Saver" /\ operations[1].current_frame = 2
    /\ operations[2].kind = "Propagator" /\ operations[2].loss_checked.loss # Real(0)
    /\ operations[3].kind = "Control"
    /\ wave_function.array # before.array

====
